---- MODULE Spec2Model ----
(***************************************************************************)
(* Model of the token-bucket rate limiter: TokenBucket (refill, Allow,     *)
(* Wait, timeUntilAvailable) and KeyedLimiter (Allow, Wait,                *)
(* getOrCreateBucket).                                                     *)
(*                                                                         *)
(* Numbers.  float64 token amounts are held as integers in units of        *)
(* 1/Unit token, and time.Time readings as integers in ticks of 1/Unit     *)
(* second.  refillRate stays in tokens per second, so that                 *)
(*    elapsed.Seconds() * refillRate   (tokens)                            *)
(* is exactly   elapsedTicks * refillRate   (1/Unit tokens).               *)
(* An int argument `requested` converts with Float64(requested).           *)
(***************************************************************************)
EXTENDS Integers, Sequences, FiniteSets, TLC

\* ---------------------------------------------------------------- bounds
Unit == 2
MaxCapacity == 3
MaxRate == 1
MaxRequested == 2
MinRequested == 0 - 1
MaxTime == 2
NumProcs == 3

Procs == 1..NumProcs
\* the two callers of the specifications with concurrent Allow and Wait
Pair == {1, 2}
NoProc == 0
Keys == {"user-1", "user-2"}
Capacities == 0..MaxCapacity
Rates == 0..MaxRate
Requests == MinRequested..MaxRequested

Min(a, b) == IF a <= b THEN a ELSE b

\* float64(requested): tokens -> 1/Unit tokens
Float64(n) == n * Unit

\* ---------------------------------------------------------------- state
VARIABLES
    now,      \* the reading of the injected Clock (ticks)
    heap,     \* the TokenBucket objects allocated so far; index = identity
    kl,       \* the KeyedLimiter: capacity, refillRate, buckets, mu
    pc,       \* per caller: position in the call it is executing
    call,     \* per caller: the call's arguments (op, key, requested)
    local,    \* per caller: local variables (bucket, ctx, waitDuration)
    result,   \* per caller: value returned by its last finished call
    deducted, \* per caller: amount its current call has taken from tokens
    seen,     \* per caller: what its deciding step read (history, see Observed)
    rl,       \* the RedisLimiter: capacity, refillRate, failureMode, breaker
    cb,       \* its CircuitBreaker: state, failures, threshold, timeout, lastFailure
    store,    \* the store: reachable or not, and the hash it holds for each key
    obs,      \* per caller: Metrics calls, breaker calls and script runs of
              \* the RedisLimiter.Allow it is executing (or has last executed)
    hist      \* history: the last call on the breaker as its caller saw it
              \* and the failures recorded in a row (see Logged)

\* the state of the shared-store limiter, which the local limiters leave alone
remote == <<rl, cb, store, obs>>

vars == <<now, heap, kl, pc, call, local, result, deducted, seen, rl, cb, store, obs, hist>>

\* returned values
NoResult == "none"
ErrExceedsCapacity == "ErrExceedsCapacity"
Canceled == "context.Canceled"
DeadlineExceeded == "context.DeadlineExceeded"
Nil == "nil"
CtxErrors == {Canceled, DeadlineExceeded}

\* ctx.Err() of a context: Nil while it is not done
CtxStates == {Nil} \cup CtxErrors

\* ---------------------------------------------------------------- TokenBucket
NewTokenBucket(capacity, refillRate, t) ==
    [capacity |-> capacity, refillRate |-> refillRate,
     tokens |-> capacity, lastRefill |-> t, mu |-> NoProc]

\* refill that stamps the time and adds nothing
refillNothing(tb, t) ==
    LET elapsed == t - tb.lastRefill IN
    IF elapsed > 0 THEN [tb EXCEPT !.lastRefill = t] ELSE tb

\* refill without the cap at capacity
refillUncapped(tb, t) ==
    LET elapsed == t - tb.lastRefill IN
    IF elapsed > 0
    THEN [tb EXCEPT !.tokens = tb.tokens + elapsed * tb.refillRate, !.lastRefill = t]
    ELSE tb

\* refill without the guard on elapsed
refillUnguarded(tb, t) ==
    LET elapsed == t - tb.lastRefill IN
    [tb EXCEPT !.tokens = Min(tb.tokens + elapsed * tb.refillRate, tb.capacity),
               !.lastRefill = t]

refill(tb, t) ==
    LET elapsed == t - tb.lastRefill IN
    IF elapsed > 0
    THEN [tb EXCEPT !.tokens = Min(tb.tokens + elapsed * tb.refillRate, tb.capacity),
                    !.lastRefill = t]
    ELSE tb

\* Allow without the comparison of requested with capacity
AllowNoCapacityCheck(tb, t, requested) ==
    LET r == refill(tb, t) IN
    IF r.tokens >= Float64(requested)
    THEN [ok |-> TRUE, tb |-> [r EXCEPT !.tokens = @ - Float64(requested)]]
    ELSE [ok |-> FALSE, tb |-> r]

\* Allow that needs more than requested (> for >=)
AllowStrict(tb, t, requested) ==
    LET r == refill(tb, t) IN
    IF Float64(requested) > r.capacity THEN [ok |-> FALSE, tb |-> r]
    ELSE IF r.tokens > Float64(requested)
    THEN [ok |-> TRUE, tb |-> [r EXCEPT !.tokens = @ - Float64(requested)]]
    ELSE [ok |-> FALSE, tb |-> r]

\* the body of TokenBucket.Allow between Lock and Unlock
Allow(tb, t, requested) ==
    LET r == refill(tb, t) IN
    IF Float64(requested) > r.capacity THEN [ok |-> FALSE, tb |-> r]
    ELSE IF r.tokens >= Float64(requested)
    THEN [ok |-> TRUE, tb |-> [r EXCEPT !.tokens = @ - Float64(requested)]]
    ELSE [ok |-> FALSE, tb |-> r]

\* the guard at the top of TokenBucket.Wait
WaitExceeds(tb, requested) == Float64(requested) > tb.capacity

\* an attempt that takes what is there when it is not enough
WaitTryPartial(tb, t, requested) ==
    LET r == refill(tb, t) IN
    IF r.tokens >= Float64(requested)
    THEN [ok |-> TRUE, tb |-> [r EXCEPT !.tokens = @ - Float64(requested)]]
    ELSE [ok |-> FALSE, tb |-> [r EXCEPT !.tokens = 0]]

\* one attempt of the loop of TokenBucket.Wait: refill, then take or not
WaitTry(tb, t, requested) ==
    LET r == refill(tb, t) IN
    IF r.tokens >= Float64(requested)
    THEN [ok |-> TRUE, tb |-> [r EXCEPT !.tokens = @ - Float64(requested)]]
    ELSE [ok |-> FALSE, tb |-> r]

\* A time.Duration handed to time.NewTimer: whole ticks, and whether the
\* timer can fire at all.
Duration(ticks) == [ticks |-> ticks, fires |-> TRUE]

\* time.Duration(+Inf): the float-to-int conversion of a value the type
\* cannot represent is implementation-dependent.  It yields math.MinInt64
\* (a timer that fires at once) or math.MaxInt64 (one that never fires).
InfDurations == {[ticks |-> 0, fires |-> TRUE], [ticks |-> 0, fires |-> FALSE]}

\* timeUntilAvailable: the bucket after its refill and the possible durations
timeUntilAvailable(tb, t, requested) ==
    LET r == refill(tb, t)
        deficit == Float64(requested) - r.tokens
    IN [tb |-> r,
        durations |-> IF deficit <= 0 THEN {Duration(0)}
                      ELSE IF r.refillRate = 0 THEN InfDurations
                      ELSE {Duration(deficit \div r.refillRate)}]

\* ---------------------------------------------------------------- callers
NoBucket == 0

\* passed: the call has taken the timer case of its select while ctx was done
InitLocal == [bucket |-> NoBucket, ctx |-> Nil, waitDuration |-> Duration(0),
              passed |-> FALSE]
NoCall == [op |-> "none", key |-> "user-1", requested |-> 0]

Idle(p) == pc[p] \in {"idle", "done"}

\* Bound on the inputs: a negative request is issued only to a bucket that
\* holds at most capacity, which keeps the token count finite.
Issuable(tb, n) == n >= 0 \/ tb.tokens <= tb.capacity

Finish(p, value) ==
    /\ pc' = [pc EXCEPT ![p] = "done"]
    /\ result' = [result EXCEPT ![p] = value]

\* return of bucket.Allow: to the caller, or to handleFailure of the
\* RedisLimiter.Allow that called localLimiter.Allow
ReturnAllow(p, ok) ==
    IF call[p].op = "Allow"
    THEN Finish(p, ok)
    ELSE /\ pc' = [pc EXCEPT ![p] = IF ok THEN "r_local_true" ELSE "r_local_false"]
         /\ UNCHANGED result

StartCall(p, op, key, n) ==
    /\ call' = [call EXCEPT ![p] = [op |-> op, key |-> key, requested |-> n]]
    /\ result' = [result EXCEPT ![p] = NoResult]
    /\ deducted' = [deducted EXCEPT ![p] = 0]

\* a caller starts bucket.Allow(requested) on the bucket it holds
CallAllow(p) ==
    /\ Idle(p)
    /\ local[p].bucket # NoBucket
    /\ \E n \in Requests :
         /\ Issuable(heap[local[p].bucket], n)
         /\ StartCall(p, "Allow", call[p].key, n)
    /\ local' = [local EXCEPT ![p].ctx = Nil, ![p].passed = FALSE]
    /\ pc' = [pc EXCEPT ![p] = "a_lock"]
    /\ UNCHANGED <<now, heap, kl, remote>>

\* tb.mu.Lock(); defer tb.mu.Unlock(); refill; decide; return
AllowBody(p) ==
    /\ pc[p] = "a_lock"
    /\ heap[local[p].bucket].mu = NoProc
    /\ LET b == local[p].bucket
           r == Allow(heap[b], now, call[p].requested)
       IN /\ heap' = [heap EXCEPT ![b] = r.tb]
          /\ deducted' = [deducted EXCEPT
                            ![p] = @ + (refill(heap[b], now).tokens - r.tb.tokens)]
          /\ ReturnAllow(p, r.ok)
    /\ UNCHANGED <<now, kl, call, local, remote>>

\* a Wait that looks at its context before the first attempt
WaitEnterCtxFirst(p, tb, n) ==
    IF WaitExceeds(tb, n)
    THEN Finish(p, ErrExceedsCapacity)
    ELSE IF local'[p].ctx # Nil
    THEN Finish(p, local'[p].ctx)
    ELSE /\ pc' = [pc EXCEPT ![p] = "w_lock"]
         /\ result' = [result EXCEPT ![p] = NoResult]

\* entry of bucket.Wait(ctx, requested):
\*   if float64(requested) > tb.capacity { return ErrExceedsCapacity }
WaitEnter(p, tb, n) ==
    IF WaitExceeds(tb, n)
    THEN Finish(p, ErrExceedsCapacity)
    ELSE /\ pc' = [pc EXCEPT ![p] = "w_lock"]
         /\ result' = [result EXCEPT ![p] = NoResult]

\* a caller starts bucket.Wait(ctx, requested); ctx may already be done,
\* with one of the errors of kinds
CallWait(p, kinds) ==
    /\ Idle(p)
    /\ local[p].bucket # NoBucket
    /\ \E n \in Requests, c \in {Nil} \cup kinds :
         /\ Issuable(heap[local[p].bucket], n)
         /\ call' = [call EXCEPT ![p] = [op |-> "Wait", key |-> call[p].key, requested |-> n]]
         /\ deducted' = [deducted EXCEPT ![p] = 0]
         /\ local' = [local EXCEPT ![p].ctx = c, ![p].passed = FALSE]
         /\ WaitEnter(p, heap[local[p].bucket], n)
    /\ UNCHANGED <<now, heap, kl, remote>>

\* tb.mu.Lock(); tb.refill(); if enough: take, Unlock, return nil
WaitAttempt(p) ==
    /\ pc[p] = "w_lock"
    /\ heap[local[p].bucket].mu = NoProc
    /\ LET b == local[p].bucket
           r == WaitTry(heap[b], now, call[p].requested)
       IN /\ deducted' = [deducted EXCEPT
                            ![p] = @ + (refill(heap[b], now).tokens - r.tb.tokens)]
          /\ IF r.ok
             THEN /\ heap' = [heap EXCEPT ![b] = r.tb]
                  /\ Finish(p, Nil)
             ELSE /\ heap' = [heap EXCEPT ![b] = [r.tb EXCEPT !.mu = p]]
                  /\ pc' = [pc EXCEPT ![p] = "w_until"]
                  /\ UNCHANGED result
    /\ UNCHANGED <<now, kl, call, local, remote>>

\* a Wait that goes to sleep with the bucket's lock held
WaitUntilLocked(p) ==
    /\ pc[p] = "w_until"
    /\ LET b == local[p].bucket
           r == timeUntilAvailable(heap[b], now, call[p].requested)
       IN /\ heap' = [heap EXCEPT ![b] = [r.tb EXCEPT !.mu = p]]
          /\ \E d \in r.durations :
               local' = [local EXCEPT ![p].waitDuration = d]
    /\ pc' = [pc EXCEPT ![p] = "w_select"]
    /\ UNCHANGED <<now, kl, call, result, deducted, remote>>

\* waitDuration := tb.timeUntilAvailable(requested); tb.mu.Unlock()
WaitUntil(p) ==
    /\ pc[p] = "w_until"
    /\ LET b == local[p].bucket
           r == timeUntilAvailable(heap[b], now, call[p].requested)
       IN /\ heap' = [heap EXCEPT ![b] = [r.tb EXCEPT !.mu = NoProc]]
          /\ \E d \in r.durations :
               local' = [local EXCEPT ![p].waitDuration = d]
    /\ pc' = [pc EXCEPT ![p] = "w_select"]
    /\ UNCHANGED <<now, kl, call, result, deducted, remote>>

\* the ctx.Done case returning context.Canceled whatever ctx.Err() is
WaitCtxDoneCanceled(p) ==
    /\ pc[p] = "w_select"
    /\ local[p].ctx # Nil
    /\ Finish(p, Canceled)
    /\ local' = [local EXCEPT ![p].waitDuration = Duration(0)]
    /\ UNCHANGED <<now, heap, kl, call, deducted, remote>>

\* select: case <-ctx.Done(): timer.Stop(); return ctx.Err()
WaitCtxDone(p) ==
    /\ pc[p] = "w_select"
    /\ local[p].ctx # Nil
    /\ Finish(p, local[p].ctx)
    /\ local' = [local EXCEPT ![p].waitDuration = Duration(0)]
    /\ UNCHANGED <<now, heap, kl, call, deducted, remote>>

\* select: case <-timer.C: continue the loop.  The timer runs on the
\* runtime's clock, not on the injected Clock: it fires at any moment.
WaitTimer(p) ==
    /\ pc[p] = "w_select"
    /\ local[p].waitDuration.fires
    /\ pc' = [pc EXCEPT ![p] = "w_lock"]
    /\ local' = [local EXCEPT ![p].waitDuration = Duration(0),
                             ![p].passed = @ \/ local[p].ctx # Nil]
    /\ UNCHANGED <<now, heap, kl, call, result, deducted, remote>>

\* the caller's context is cancelled, or its deadline passes
CtxCancel(p, kinds) ==
    /\ pc[p] \in {"w_lock", "w_until", "w_select"}
    /\ local[p].ctx = Nil
    /\ \E e \in kinds : local' = [local EXCEPT ![p].ctx = e]
    /\ UNCHANGED <<now, heap, kl, pc, call, result, deducted, remote>>

\* MockClock.Advance(d) with d > 0
Tick ==
    /\ now < MaxTime
    /\ now' = now + 1
    /\ UNCHANGED <<heap, kl, pc, call, local, result, deducted, remote>>

\* MockClock.Advance(d) with d < 0, or a Clock whose Now() steps back
TickBack ==
    /\ now > 0
    /\ now' = now - 1
    /\ UNCHANGED <<heap, kl, pc, call, local, result, deducted, remote>>

\* A clock that advances for ever, in a window of Horizon ticks: at the end
\* of the window the origin of time moves instead of the reading, so every
\* timestamp goes back by one tick, and stays at 0 once there.  An elapsed
\* time of Horizon stands for Horizon or more: with refillRate >= 1 a refill
\* over Horizon ticks fills the bucket to capacity from any level, and with
\* refillRate = 0 it adds nothing over any time.
Horizon == MaxCapacity
Max(a, b) == IF a >= b THEN a ELSE b
TickForever ==
    /\ IF now < Horizon
       THEN /\ now' = now + 1
            /\ UNCHANGED heap
       ELSE /\ UNCHANGED now
            /\ heap' = [b \in 1..Len(heap) |->
                          [heap[b] EXCEPT !.lastRefill = Max(@ - 1, 0)]]
    /\ UNCHANGED <<kl, pc, call, local, result, deducted, remote>>

\* ---------------------------------------------------------------- KeyedLimiter
NewKeyedLimiter(capacity, refillRate) ==
    [capacity |-> capacity, refillRate |-> refillRate,
     buckets |-> [k \in Keys |-> NoBucket],
     readers |-> {}, writer |-> NoProc]

\* a lookup that ignores the key: any bucket of the map
lookupAny(k, key) ==
    IF \E x \in Keys : k.buckets[x] # NoBucket
    THEN k.buckets[CHOOSE x \in Keys : k.buckets[x] # NoBucket]
    ELSE NoBucket

\* value, ok := kl.buckets[key] under the read lock (NoBucket: not ok)
lookup(k, key) == k.buckets[key]

\* getOrCreateBucket without the second check under the write lock
getOrCreateUnchecked(k, h, key, t) ==
    [heap |-> Append(h, NewTokenBucket(k.capacity, k.refillRate, t)),
     buckets |-> [k.buckets EXCEPT ![key] = Len(h) + 1],
     bucket |-> Len(h) + 1]

\* getOrCreateBucket under the write lock: the second check, then the insert
getOrCreateLocked(k, h, key, t) ==
    IF k.buckets[key] # NoBucket
    THEN [heap |-> h, buckets |-> k.buckets, bucket |-> k.buckets[key]]
    ELSE [heap |-> Append(h, NewTokenBucket(k.capacity, k.refillRate, t)),
          buckets |-> [k.buckets EXCEPT ![key] = Len(h) + 1],
          bucket |-> Len(h) + 1]

\* kl.Allow(key, tokens) / kl.Wait(ctx, key, tokens): both start with
\* getOrCreateBucket(key)
CallKeyed(p, ops, keys, reqs, kinds) ==
    /\ Idle(p)
    /\ \E op \in ops, key \in keys, n \in reqs :
         /\ IF kl.buckets[key] = NoBucket THEN TRUE
            ELSE Issuable(heap[kl.buckets[key]], n)
         /\ StartCall(p, op, key, n)
         /\ \E c \in (IF op = "Wait" THEN {Nil} \cup kinds ELSE {Nil}) :
              local' = [local EXCEPT ![p] = [InitLocal EXCEPT !.ctx = c]]
    /\ pc' = [pc EXCEPT ![p] = "g_rlock"]
    /\ UNCHANGED <<now, heap, kl, remote>>

\* kl.mu.RLock()
GetRLock(p) ==
    /\ pc[p] = "g_rlock"
    /\ kl.writer = NoProc
    /\ kl' = [kl EXCEPT !.readers = @ \cup {p}]
    /\ pc' = [pc EXCEPT ![p] = "g_read"]
    /\ UNCHANGED <<now, heap, call, local, result, deducted, remote>>

\* the bucket is in hand: bucket.Allow(tokens) or bucket.Wait(ctx, tokens)
Delegate(p, tb) ==
    IF call[p].op = "Wait"
    THEN WaitEnter(p, tb, call[p].requested)
    ELSE /\ pc' = [pc EXCEPT ![p] = "a_lock"]
         /\ UNCHANGED result

\* if value, ok := kl.buckets[key]; ok { RUnlock; return value }; RUnlock
GetRead(p) ==
    /\ pc[p] = "g_read"
    /\ kl' = [kl EXCEPT !.readers = @ \ {p}]
    /\ LET b == lookup(kl, call[p].key) IN
       IF b # NoBucket
       THEN /\ local' = [local EXCEPT ![p].bucket = b]
            /\ Delegate(p, heap[b])
       ELSE /\ pc' = [pc EXCEPT ![p] = "g_lock"]
            /\ UNCHANGED <<local, result>>
    /\ UNCHANGED <<now, heap, call, deducted, remote>>

\* kl.mu.Lock()
GetLock(p) ==
    /\ pc[p] = "g_lock"
    /\ kl.writer = NoProc
    /\ kl.readers = {}
    /\ kl' = [kl EXCEPT !.writer = p]
    /\ pc' = [pc EXCEPT ![p] = "g_write"]
    /\ UNCHANGED <<now, heap, call, local, result, deducted, remote>>

\* second check; NewTokenBucket; kl.buckets[key] = bucket; Unlock; return
GetWrite(p) ==
    /\ pc[p] = "g_write"
    /\ LET r == getOrCreateLocked(kl, heap, call[p].key, now) IN
         /\ heap' = r.heap
         /\ kl' = [kl EXCEPT !.buckets = r.buckets, !.writer = NoProc]
         /\ local' = [local EXCEPT ![p].bucket = r.bucket]
         /\ Delegate(p, r.heap[r.bucket])
    /\ UNCHANGED <<now, call, deducted, remote>>

\* ---------------------------------------------------------------- CircuitBreaker
CircuitClosed == "closed"
CircuitOpen == "open"
CircuitHalfOpen == "half-open"

NewCircuitBreaker(threshold, timeout) ==
    [state |-> CircuitClosed, failures |-> 0, threshold |-> threshold,
     timeout |-> timeout, lastFailure |-> 0]

\* an Allow that lets one probe through: HalfOpen answers false
BreakerAllowOneProbe(c, t) ==
    IF c.state = CircuitOpen
    THEN IF t - c.lastFailure >= c.timeout
         THEN [ok |-> TRUE, cb |-> [c EXCEPT !.state = CircuitHalfOpen]]
         ELSE [ok |-> FALSE, cb |-> c]
    ELSE [ok |-> c.state = CircuitClosed, cb |-> c]

\* an Allow that lets a call probe an open breaker before the timeout
BreakerAllowEarly(c, t) ==
    IF c.state = CircuitOpen
    THEN [ok |-> TRUE, cb |-> [c EXCEPT !.state = CircuitHalfOpen]]
    ELSE [ok |-> TRUE, cb |-> c]

\* an Allow that clears the failure count when it moves to HalfOpen
BreakerAllowResets(c, t) ==
    IF c.state = CircuitOpen
    THEN IF t - c.lastFailure >= c.timeout
         THEN [ok |-> TRUE, cb |-> [c EXCEPT !.state = CircuitHalfOpen, !.failures = 0]]
         ELSE [ok |-> FALSE, cb |-> c]
    ELSE [ok |-> TRUE, cb |-> c]

\* cb.Allow() at time t
BreakerAllow(c, t) ==
    IF c.state = CircuitOpen
    THEN IF t - c.lastFailure >= c.timeout
         THEN [ok |-> TRUE, cb |-> [c EXCEPT !.state = CircuitHalfOpen]]
         ELSE [ok |-> FALSE, cb |-> c]
    ELSE [ok |-> TRUE, cb |-> c]

\* a RecordSuccess that closes the breaker and keeps the count
RecordSuccessKeepsCount(c) == [c EXCEPT !.state = CircuitClosed]

RecordSuccess(c) == [c EXCEPT !.failures = 0, !.state = CircuitClosed]

\* a RecordFailure that opens only above the threshold
RecordFailureLate(c, t) ==
    [c EXCEPT !.failures = @ + 1,
              !.lastFailure = t,
              !.state = IF c.failures + 1 > c.threshold THEN CircuitOpen ELSE @]

\* a RecordFailure that stamps the time only when it opens a closed breaker
RecordFailureNoRestamp(c, t) ==
    [c EXCEPT !.failures = @ + 1,
              !.lastFailure = IF c.state = CircuitClosed THEN t ELSE @,
              !.state = IF c.failures + 1 >= c.threshold THEN CircuitOpen ELSE @]

RecordFailure(c, t) ==
    [c EXCEPT !.failures = @ + 1,
              !.lastFailure = t,
              !.state = IF c.failures + 1 >= c.threshold THEN CircuitOpen ELSE @]

\* ---------------------------------------------------------------- the store
\* the hash of a key: absent, or the fields tokens and ts
NoEntry == [exists |-> FALSE, tokens |-> 0, ts |-> 0]

NewStore == [up |-> TRUE, data |-> [k \in Keys |-> NoEntry]]

\* a script whose allowing branch does not write the hash back
tokenBucketScriptNoWrite(e, t, requested, capacity, refill_rate) ==
    LET tokens0 == IF e.exists THEN e.tokens ELSE capacity
        last_ts == IF e.exists THEN e.ts ELSE t
        elapsed == t - last_ts
        tokens == Min(capacity, tokens0 + elapsed * refill_rate)
        allowed == tokens >= Float64(requested)
    IN [allowed |-> allowed,
        entry |-> IF allowed THEN e
                  ELSE [exists |-> TRUE, tokens |-> tokens, ts |-> t]]

\* a script that writes nothing back when it denies
tokenBucketScriptDenialStale(e, t, requested, capacity, refill_rate) ==
    LET tokens0 == IF e.exists THEN e.tokens ELSE capacity
        last_ts == IF e.exists THEN e.ts ELSE t
        elapsed == t - last_ts
        tokens == Min(capacity, tokens0 + elapsed * refill_rate)
        allowed == tokens >= Float64(requested)
    IN [allowed |-> allowed,
        entry |-> IF allowed
                  THEN [exists |-> TRUE, tokens |-> tokens - Float64(requested), ts |-> t]
                  ELSE e]

\* scripts/token_bucket.lua, run by the store at its time t
tokenBucketScript(e, t, requested, capacity, refill_rate) ==
    LET tokens0 == IF e.exists THEN e.tokens ELSE capacity
        last_ts == IF e.exists THEN e.ts ELSE t
        elapsed == t - last_ts
        tokens == Min(capacity, tokens0 + elapsed * refill_rate)
        allowed == tokens >= Float64(requested)
    IN [allowed |-> allowed,
        entry |-> [exists |-> TRUE,
                   tokens |-> IF allowed THEN tokens - Float64(requested) ELSE tokens,
                   ts |-> t]]

\* ---------------------------------------------------------------- RedisLimiter
FailOpen == "FailOpen"
FailClosed == "FailClosed"
FailDegrade == "FailDegrade"
FailureModes == {FailOpen, FailClosed, FailDegrade}
\* FailureMode is an int type: a value that is none of the three constants
FailureModeOther == "FailureMode(3)"

\* breaker: WithCircuitBreaker was given (r.circuitBreaker != nil)
NewRedisLimiter(capacity, refillRate, failureMode, breaker) ==
    [capacity |-> capacity, refillRate |-> refillRate,
     failureMode |-> failureMode, breaker |-> breaker]

\* WithFailureMode(mode): an Option, which sets r.failureMode
WithFailureMode(mode) == [failureMode |-> mode]

\* for _, opt := range opts { opt(r) }
RECURSIVE applyOptions(_, _)
applyOptions(r, opts) ==
    IF opts = <<>> THEN r
    ELSE applyOptions([r EXCEPT !.failureMode = Head(opts).failureMode], Tail(opts))

\* NewRedisLimiter(client, capacity, refillRate, keyPrefix, opts...):
\* failureMode: FailOpen in the literal, then the options in their order
NewRedisLimiterOpts(capacity, refillRate, breaker, opts) ==
    applyOptions(NewRedisLimiter(capacity, refillRate, FailOpen, breaker), opts)

\* obs of one r.Allow: the calls of Metrics (onAllow, onDeny, onError,
\* onLatency), of the script (runs) and what came back (reply), of the
\* breaker (breaker: Allow, and whether it said no: rejected; recordFailure,
\* recordSuccess)
NoObs == [onAllow |-> 0, onDeny |-> 0, onError |-> 0, onLatency |-> 0,
          runs |-> 0, reply |-> "none", breaker |-> 0, rejected |-> FALSE,
          recordFailure |-> 0, recordSuccess |-> 0]

\* r.Wait without its first line
RemoteWaitUnchecked(r, tokens) == FALSE

\* r.Wait: if float64(tokens) > r.capacity { return ErrExceedsCapacity }
RemoteWaitExceeds(r, tokens) == Float64(tokens) > r.capacity

\* r.Allow(key, tokens), or r.Wait(ctx, key, tokens) and its first line
CallRemote(p, ops, keys, reqs, kinds) ==
    /\ Idle(p)
    /\ \E op \in ops, key \in keys, n \in reqs :
         /\ call' = [call EXCEPT ![p] = [op |-> op, key |-> key, requested |-> n]]
         /\ \E c \in (IF op = "R.Wait" THEN {Nil} \cup kinds ELSE {Nil}) :
              local' = [local EXCEPT ![p] = [InitLocal EXCEPT !.ctx = c]]
         /\ IF op = "R.Wait" /\ RemoteWaitExceeds(rl, n)
            THEN Finish(p, ErrExceedsCapacity)
            ELSE /\ pc' = [pc EXCEPT ![p] = "r_allow"]
                 /\ result' = [result EXCEPT ![p] = NoResult]
    /\ deducted' = [deducted EXCEPT ![p] = 0]
    /\ obs' = [obs EXCEPT ![p] = NoObs]
    /\ UNCHANGED <<now, heap, kl, rl, cb, store>>

\* an r.Allow that reports the open breaker and runs the script all the same
RemoteBreakerIgnored(p) ==
    /\ pc[p] = "r_allow"
    /\ IF rl.breaker
       THEN LET r == BreakerAllow(cb, now) IN
              /\ cb' = r.cb
              /\ obs' = [obs EXCEPT ![p] = [NoObs EXCEPT
                                              !.breaker = 1,
                                              !.rejected = ~r.ok,
                                              !.onError = IF r.ok THEN 0 ELSE 1]]
              /\ pc' = [pc EXCEPT ![p] = "r_run"]
       ELSE /\ obs' = [obs EXCEPT ![p] = NoObs]
            /\ pc' = [pc EXCEPT ![p] = "r_run"]
            /\ UNCHANGED cb
    /\ UNCHANGED <<now, heap, kl, call, local, result, deducted, rl, store>>

\* an r.Allow whose rejection by the open breaker counts as a failure
RemoteBreakerRestamps(p) ==
    /\ pc[p] = "r_allow"
    /\ IF rl.breaker
       THEN LET r == BreakerAllow(cb, now) IN
              /\ cb' = IF r.ok THEN r.cb ELSE [r.cb EXCEPT !.lastFailure = now]
              /\ obs' = [obs EXCEPT ![p] = [NoObs EXCEPT
                                              !.breaker = 1,
                                              !.rejected = ~r.ok,
                                              !.onError = IF r.ok THEN 0 ELSE 1]]
              /\ pc' = [pc EXCEPT ![p] = IF r.ok THEN "r_run" ELSE "r_fail"]
       ELSE /\ obs' = [obs EXCEPT ![p] = NoObs]
            /\ pc' = [pc EXCEPT ![p] = "r_run"]
            /\ UNCHANGED cb
    /\ UNCHANGED <<now, heap, kl, call, local, result, deducted, rl, store>>

\* if r.circuitBreaker != nil && !r.circuitBreaker.Allow() { OnError; handleFailure }
RemoteBreaker(p) ==
    /\ pc[p] = "r_allow"
    /\ IF rl.breaker
       THEN LET r == BreakerAllow(cb, now) IN
              /\ cb' = r.cb
              /\ obs' = [obs EXCEPT ![p] = [NoObs EXCEPT
                                              !.breaker = 1,
                                              !.rejected = ~r.ok,
                                              !.onError = IF r.ok THEN 0 ELSE 1]]
              /\ pc' = [pc EXCEPT ![p] = IF r.ok THEN "r_run" ELSE "r_fail"]
       ELSE /\ obs' = [obs EXCEPT ![p] = NoObs]
            /\ pc' = [pc EXCEPT ![p] = "r_run"]
            /\ UNCHANGED cb
    /\ UNCHANGED <<now, heap, kl, call, local, result, deducted, rl, store>>

\* r.script.Run(...): the store runs the script, or cannot be reached
RemoteRun(p) ==
    /\ pc[p] = "r_run"
    /\ IF store.up
       THEN LET r == tokenBucketScript(store.data[call[p].key], now,
                                       call[p].requested, rl.capacity, rl.refillRate)
            IN /\ store' = [store EXCEPT !.data[call[p].key] = r.entry]
               /\ pc' = [pc EXCEPT ![p] = IF r.allowed THEN "r_reply_1" ELSE "r_reply_0"]
               /\ obs' = [obs EXCEPT ![p].runs = @ + 1,
                                     ![p].reply = IF r.allowed THEN "allow" ELSE "deny"]
       ELSE /\ pc' = [pc EXCEPT ![p] = "r_reply_err"]
            /\ obs' = [obs EXCEPT ![p].runs = @ + 1, ![p].reply = "err"]
            /\ UNCHANGED store
    /\ UNCHANGED <<now, heap, kl, call, local, result, deducted, rl, cb>>

\* return of r.Allow: to the caller, or to the loop of r.Wait
RemoteReturn(p, allowed) ==
    IF call[p].op = "R.Allow"
    THEN Finish(p, allowed)
    ELSE IF allowed
    THEN Finish(p, Nil)
    ELSE /\ pc' = [pc EXCEPT ![p] = "r_select"]
         /\ UNCHANGED result

\* an r.Allow for which a denial by the store is a failure of the store
RemoteReplyDenialFails(p) ==
    /\ pc[p] \in {"r_reply_1", "r_reply_0", "r_reply_err"}
    /\ IF pc[p] = "r_reply_err"
       THEN /\ cb' = IF rl.breaker THEN RecordFailure(cb, now) ELSE cb
            /\ obs' = [obs EXCEPT ![p].onLatency = @ + 1, ![p].onError = @ + 1,
                                  ![p].recordFailure = IF rl.breaker THEN @ + 1 ELSE @]
            /\ pc' = [pc EXCEPT ![p] = "r_fail"]
            /\ UNCHANGED result
       ELSE /\ cb' = IF ~rl.breaker THEN cb
                    ELSE IF pc[p] = "r_reply_0" THEN RecordFailure(cb, now)
                    ELSE RecordSuccess(cb)
            /\ obs' = [obs EXCEPT ![p].onLatency = @ + 1,
                                  ![p].recordSuccess = IF rl.breaker THEN @ + 1 ELSE @,
                                  ![p].onAllow = IF pc[p] = "r_reply_1" THEN @ + 1 ELSE @,
                                  ![p].onDeny = IF pc[p] = "r_reply_0" THEN @ + 1 ELSE @]
            /\ RemoteReturn(p, pc[p] = "r_reply_1")
    /\ UNCHANGED <<now, heap, kl, call, local, deducted, rl, store>>

\* .Result() is in: OnLatency; on an error RecordFailure, OnError and
\* handleFailure; otherwise RecordSuccess, OnAllow or OnDeny, return
RemoteReply(p) ==
    /\ pc[p] \in {"r_reply_1", "r_reply_0", "r_reply_err"}
    /\ IF pc[p] = "r_reply_err"
       THEN /\ cb' = IF rl.breaker THEN RecordFailure(cb, now) ELSE cb
            /\ obs' = [obs EXCEPT ![p].onLatency = @ + 1, ![p].onError = @ + 1,
                                  ![p].recordFailure = IF rl.breaker THEN @ + 1 ELSE @]
            /\ pc' = [pc EXCEPT ![p] = "r_fail"]
            /\ UNCHANGED result
       ELSE /\ cb' = IF rl.breaker THEN RecordSuccess(cb) ELSE cb
            /\ obs' = [obs EXCEPT ![p].onLatency = @ + 1,
                                  ![p].recordSuccess = IF rl.breaker THEN @ + 1 ELSE @,
                                  ![p].onAllow = IF pc[p] = "r_reply_1" THEN @ + 1 ELSE @,
                                  ![p].onDeny = IF pc[p] = "r_reply_0" THEN @ + 1 ELSE @]
            /\ RemoteReturn(p, pc[p] = "r_reply_1")
    /\ UNCHANGED <<now, heap, kl, call, local, deducted, rl, store>>

\* a handleFailure with the answers of FailOpen and FailClosed exchanged
handleFailureExchanged(p) ==
    /\ pc[p] = "r_fail"
    /\ IF rl.failureMode = FailOpen
       THEN /\ obs' = [obs EXCEPT ![p].onAllow = @ + 1]
            /\ RemoteReturn(p, FALSE)
       ELSE IF rl.failureMode = FailClosed
       THEN /\ obs' = [obs EXCEPT ![p].onDeny = @ + 1]
            /\ RemoteReturn(p, TRUE)
       ELSE IF rl.failureMode = FailDegrade
       THEN /\ pc' = [pc EXCEPT ![p] = "g_rlock"]
            /\ UNCHANGED <<obs, result>>
       ELSE /\ RemoteReturn(p, TRUE)
            /\ UNCHANGED obs
    /\ UNCHANGED <<now, heap, kl, call, local, deducted, rl, cb, store>>

\* handleFailure(key, tokens): the switch on r.failureMode; its default arm
\* answers true for a mode that is none of the three constants, and tells
\* Metrics nothing
handleFailure(p) ==
    /\ pc[p] = "r_fail"
    /\ IF rl.failureMode = FailOpen
       THEN /\ obs' = [obs EXCEPT ![p].onAllow = @ + 1]
            /\ RemoteReturn(p, TRUE)
       ELSE IF rl.failureMode = FailClosed
       THEN /\ obs' = [obs EXCEPT ![p].onDeny = @ + 1]
            /\ RemoteReturn(p, FALSE)
       ELSE IF rl.failureMode = FailDegrade
       THEN /\ pc' = [pc EXCEPT ![p] = "g_rlock"]
            /\ UNCHANGED <<obs, result>>
       ELSE /\ RemoteReturn(p, TRUE)
            /\ UNCHANGED obs
    /\ UNCHANGED <<now, heap, kl, call, local, deducted, rl, cb, store>>

\* a handleFailure that tells Metrics nothing of the local limiter's answer
handleFailureLocalSilent(p) ==
    /\ pc[p] \in {"r_local_true", "r_local_false"}
    /\ RemoteReturn(p, pc[p] = "r_local_true")
    /\ UNCHANGED <<now, heap, kl, call, local, deducted, rl, cb, store, obs>>

\* handleFailure, FailDegrade: r.localLimiter.Allow has returned
handleFailureLocal(p) ==
    /\ pc[p] \in {"r_local_true", "r_local_false"}
    /\ obs' = [obs EXCEPT ![p].onAllow = IF pc[p] = "r_local_true" THEN @ + 1 ELSE @,
                          ![p].onDeny = IF pc[p] = "r_local_false" THEN @ + 1 ELSE @]
    /\ RemoteReturn(p, pc[p] = "r_local_true")
    /\ UNCHANGED <<now, heap, kl, call, local, deducted, rl, cb, store>>

\* r.Wait, select: case <-ctx.Done(): return ctx.Err()
RemoteWaitCtxDone(p) ==
    /\ pc[p] = "r_select"
    /\ local[p].ctx # Nil
    /\ Finish(p, local[p].ctx)
    /\ UNCHANGED <<now, heap, kl, call, local, deducted, remote>>

\* an r.Wait that gives up after one interval
RemoteWaitTimerGivesUp(p) ==
    /\ pc[p] = "r_select"
    /\ Finish(p, DeadlineExceeded)
    /\ UNCHANGED <<now, heap, kl, call, local, deducted, remote>>

\* r.Wait, select: case <-time.After(20 * time.Millisecond): loop
RemoteWaitTimer(p) ==
    /\ pc[p] = "r_select"
    /\ pc' = [pc EXCEPT ![p] = "r_allow"]
    /\ UNCHANGED <<now, heap, kl, call, local, result, deducted, remote>>

\* the context of a running r.Wait is cancelled, or its deadline passes
RemoteCtxCancel(p, kinds) ==
    /\ call[p].op = "R.Wait"
    /\ ~Idle(p)
    /\ local[p].ctx = Nil
    /\ \E e \in kinds : local' = [local EXCEPT ![p].ctx = e]
    /\ UNCHANGED <<now, heap, kl, pc, call, result, deducted, remote>>

\* the store becomes unreachable / reachable again
StoreDown ==
    /\ store.up
    /\ store' = [store EXCEPT !.up = FALSE]
    /\ UNCHANGED <<now, heap, kl, pc, call, local, result, deducted, rl, cb, obs>>

StoreUp ==
    /\ ~store.up
    /\ store' = [store EXCEPT !.up = TRUE]
    /\ UNCHANGED <<now, heap, kl, pc, call, local, result, deducted, rl, cb, obs>>

\* The clock that advances for ever, read by the breaker, the store and the
\* local buckets: at the end of the window lastFailure, the ts of every
\* hash and lastRefill go back by one tick.  Horizon is no less than the
\* breaker's timeout, and a refill over Horizon ticks fills every bucket of
\* the specifications that use this clock.
TickForeverRemote ==
    /\ IF now < Horizon
       THEN /\ now' = now + 1
            /\ UNCHANGED <<heap, cb, store>>
       ELSE /\ UNCHANGED now
            /\ heap' = [b \in 1..Len(heap) |->
                          [heap[b] EXCEPT !.lastRefill = Max(@ - 1, 0)]]
            /\ cb' = [cb EXCEPT !.lastFailure = Max(@ - 1, 0)]
            /\ store' = [store EXCEPT !.data =
                           [k \in Keys |-> [store.data[k] EXCEPT !.ts = Max(@ - 1, 0)]]]
    /\ UNCHANGED <<kl, pc, call, local, result, deducted, rl, obs>>

\* ---------------------------------------------------------------- callers of the breaker
\* cb.Allow(), cb.RecordSuccess() or cb.RecordFailure() called directly, as
\* the tests do; each runs under cb.mu from its first line to its last.
\* MaxFailures bounds the failures recorded in a row.
MaxThreshold == 2
MaxFailures == MaxThreshold + 2

\* r.script.Run against a store that cannot be reached, as long as the
\* failure count is below MaxFailures when all pending errors are in
RemoteRunBounded(p) ==
    /\ RemoteRun(p)
    /\ \/ store.up
       \/ cb.failures + Cardinality({q \in Procs : pc[q] = "r_reply_err"}) < MaxFailures

CallBreakerAllow(p) ==
    /\ Idle(p)
    /\ LET r == BreakerAllow(cb, now) IN
         /\ cb' = r.cb
         /\ result' = [result EXCEPT ![p] = r.ok]
    /\ call' = [call EXCEPT ![p] = [NoCall EXCEPT !.op = "cb.Allow"]]
    /\ pc' = [pc EXCEPT ![p] = "done"]
    /\ UNCHANGED <<now, heap, kl, local, deducted, rl, store, obs>>

CallRecordSuccess(p) ==
    /\ Idle(p)
    /\ cb' = RecordSuccess(cb)
    /\ result' = [result EXCEPT ![p] = NoResult]
    /\ call' = [call EXCEPT ![p] = [NoCall EXCEPT !.op = "cb.RecordSuccess"]]
    /\ pc' = [pc EXCEPT ![p] = "done"]
    /\ UNCHANGED <<now, heap, kl, local, deducted, rl, store, obs>>

CallRecordFailure(p) ==
    /\ Idle(p)
    /\ cb.failures < MaxFailures
    /\ cb' = RecordFailure(cb, now)
    /\ result' = [result EXCEPT ![p] = NoResult]
    /\ call' = [call EXCEPT ![p] = [NoCall EXCEPT !.op = "cb.RecordFailure"]]
    /\ pc' = [pc EXCEPT ![p] = "done"]
    /\ UNCHANGED <<now, heap, kl, local, deducted, rl, store, obs>>

\* ---------------------------------------------------------------- history
Unseen == [tokens |-> 0, elapsed |-> 0]

\* seen[p]: the token count and the elapsed time that the refill of p's
\* deciding step (the body of Allow, an attempt of Wait) started from.
Observed(A) ==
    /\ A
    /\ seen' = [p \in Procs |->
                  IF pc[p] \in {"a_lock", "w_lock"} /\ pc'[p] # pc[p]
                  THEN [tokens |-> heap[local[p].bucket].tokens,
                        elapsed |-> now - heap[local[p].bucket].lastRefill]
                  ELSE IF Idle(p) /\ pc'[p] # pc[p] THEN Unseen
                  ELSE seen[p]]
    /\ UNCHANGED hist

Unobserved(A) == A /\ UNCHANGED <<seen, hist>>

\* hist: the last call on the breaker (op, by), what it returned (ret), when
\* it ran (at), the breaker it found (before), and streak, the number of
\* RecordFailure calls since the last RecordSuccess or since construction.
\* opts: the options that NewRedisLimiter was given.
\* For the local fallback: ref, a KeyedLimiter of its own that is given
\* the calls that reach r.localLimiter, each at the moment the bucket reads
\* the clock; answer, what ref returned to the last of them; calls, how many
\* each key has had.
\* viaStore, viaLocal: for each key the tokens of the r.Allow calls that
\* returned true on the script's answer, and on r.localLimiter's answer.
NoHist == [op |-> "none", by |-> NoProc, ret |-> NoResult, at |-> 0,
           before |-> NewCircuitBreaker(1, 1), streak |-> 0,
           ref |-> [kl |-> NewKeyedLimiter(0, 0), heap |-> <<>>],
           answer |-> NoResult, calls |-> [k \in Keys |-> 0],
           opts |-> <<>>,
           viaStore |-> [k \in Keys |-> 0], viaLocal |-> [k \in Keys |-> 0]]

Logged(p, A) ==
    /\ A
    /\ hist' = [hist EXCEPT
                  !.op = call'[p].op, !.by = p, !.ret = result'[p], !.at = now,
                  !.before = cb,
                  !.streak = IF call'[p].op = "cb.RecordFailure" THEN @ + 1
                             ELSE IF call'[p].op = "cb.RecordSuccess" THEN 0
                             ELSE @]
    /\ UNCHANGED seen

\* kl.Allow(key, n) on the limiter of ref at time t
RefAllow(ref, key, n, t) ==
    LET g == getOrCreateLocked(ref.kl, ref.heap, key, t)
        a == Allow(g.heap[g.bucket], t, n)
    IN [ok |-> a.ok,
        ref |-> [kl |-> [ref.kl EXCEPT !.buckets = g.buckets],
                 heap |-> [g.heap EXCEPT ![g.bucket] = a.tb]]]

Mirrored(p, A) ==
    /\ A
    /\ IF pc[p] = "a_lock" /\ pc'[p] # "a_lock"
       THEN LET r == RefAllow(hist.ref, call[p].key, call[p].requested, now)
            IN hist' = [hist EXCEPT !.ref = r.ref, !.answer = r.ok,
                                    !.calls[call[p].key] = @ + 1]
       ELSE UNCHANGED hist
    /\ UNCHANGED seen

\* ---------------------------------------------------------------- specifications
\* no RedisLimiter is in use
InitNoRemote ==
    /\ rl = NewRedisLimiter(0, 0, FailOpen, FALSE)
    /\ cb = NewCircuitBreaker(1, 1)
    /\ store = NewStore
    /\ obs = [p \in Procs |-> NoObs]

\* bucket := NewTokenBucket(capacity, refillRate, clock), held by the callers
InitBucket(capacities, rates) ==
    /\ now = 0
    /\ \E c \in capacities, r \in rates :
         /\ heap = <<NewTokenBucket(c, r, 0)>>
         /\ kl = NewKeyedLimiter(c, r)
    /\ pc = [p \in Procs |-> "idle"]
    /\ call = [p \in Procs |-> NoCall]
    /\ local = [p \in Procs |-> [InitLocal EXCEPT !.bucket = 1]]
    /\ result = [p \in Procs |-> NoResult]
    /\ deducted = [p \in Procs |-> 0]
    /\ seen = [p \in Procs |-> Unseen]
    /\ hist = NoHist
    /\ InitNoRemote

\* One caller, every configuration: the sequential behaviour of a bucket.
InitSeq == InitBucket(Capacities, Rates)

NextSeq ==
    \/ Observed(CallAllow(1))
    \/ Observed(CallWait(1, CtxErrors))
    \/ Observed(AllowBody(1))
    \/ Observed(WaitAttempt(1))
    \/ Observed(WaitUntil(1))
    \/ Observed(WaitCtxDone(1))
    \/ Observed(WaitTimer(1))
    \/ Observed(CtxCancel(1, CtxErrors))
    \/ Observed(Tick)

SpecSeq == InitSeq /\ [][NextSeq]_vars

\* Two concurrent callers of one bucket.
InitTB == InitBucket({MaxCapacity}, Rates)

NextTB ==
    \/ \E p \in Pair : Unobserved(CallAllow(p))
    \/ \E p \in Pair : Unobserved(CallWait(p, {Canceled}))
    \/ \E p \in Pair : Unobserved(AllowBody(p))
    \/ \E p \in Pair : Unobserved(WaitAttempt(p))
    \/ \E p \in Pair : Unobserved(WaitUntil(p))
    \/ \E p \in Pair : Unobserved(WaitCtxDone(p))
    \/ \E p \in Pair : Unobserved(WaitTimer(p))
    \/ \E p \in Pair : Unobserved(CtxCancel(p, {Canceled}))
    \/ Unobserved(Tick)

SpecTB == InitTB /\ [][NextTB]_vars

\* kl := NewKeyedLimiter(capacity, refillRate, clock), two concurrent callers
InitKL ==
    /\ now = 0
    /\ heap = <<>>
    /\ kl = NewKeyedLimiter(Float64(1), 1)
    /\ pc = [p \in Procs |-> "idle"]
    /\ call = [p \in Procs |-> NoCall]
    /\ local = [p \in Procs |-> InitLocal]
    /\ result = [p \in Procs |-> NoResult]
    /\ deducted = [p \in Procs |-> 0]
    /\ seen = [p \in Procs |-> Unseen]
    /\ hist = NoHist
    /\ InitNoRemote

NextKL ==
    \/ \E p \in Pair : Unobserved(CallKeyed(p, {"Allow", "Wait"}, Keys, {1}, {}))
    \/ \E p \in Pair : Unobserved(GetRLock(p))
    \/ \E p \in Pair : Unobserved(GetRead(p))
    \/ \E p \in Pair : Unobserved(GetLock(p))
    \/ \E p \in Pair : Unobserved(GetWrite(p))
    \/ \E p \in Pair : Unobserved(AllowBody(p))
    \/ \E p \in Pair : Unobserved(WaitAttempt(p))
    \/ \E p \in Pair : Unobserved(WaitUntil(p))
    \/ \E p \in Pair : Unobserved(WaitCtxDone(p))
    \/ \E p \in Pair : Unobserved(WaitTimer(p))
    \/ \E p \in Pair : Unobserved(CtxCancel(p, {Canceled}))
    \/ Unobserved(Tick)

SpecKL == InitKL /\ [][NextKL]_vars

\* N concurrent kl.Allow("user-1", n) on a fresh limiter, the clock standing
\* still: callers 1..N are at the start of their call.
InitConc ==
    /\ now = 0
    /\ heap = <<>>
    /\ \E c \in 0..Float64(MaxCapacity), r \in Rates :
         kl = NewKeyedLimiter(c, r)
    /\ \E N \in 1..NumProcs, n \in 1..MaxRequested :
         /\ pc = [p \in Procs |-> IF p <= N THEN "g_rlock" ELSE "idle"]
         /\ call = [p \in Procs |->
                      IF p <= N THEN [op |-> "Allow", key |-> "user-1", requested |-> n]
                      ELSE NoCall]
    /\ local = [p \in Procs |-> InitLocal]
    /\ result = [p \in Procs |-> NoResult]
    /\ deducted = [p \in Procs |-> 0]
    /\ seen = [p \in Procs |-> Unseen]
    /\ hist = NoHist
    /\ InitNoRemote

NextConc ==
    \/ \E p \in Procs : Unobserved(GetRLock(p))
    \/ \E p \in Procs : Unobserved(GetRead(p))
    \/ \E p \in Procs : Unobserved(GetLock(p))
    \/ \E p \in Procs : Unobserved(GetWrite(p))
    \/ \E p \in Procs : Unobserved(AllowBody(p))

SpecConc == InitConc /\ [][NextConc]_vars

\* N concurrent bucket.Wait(context.Background(), n_p), n_p <= capacity, on
\* a bucket with refillRate > 0 and no other caller; the clock keeps advancing,
\* timers fire, and sync.Mutex hands the lock to a caller that keeps asking.
InitWait ==
    /\ now = 0
    /\ \E c \in 1..MaxCapacity, r \in 1..MaxRate :
         /\ heap = <<NewTokenBucket(c, r, 0)>>
         /\ kl = NewKeyedLimiter(c, r)
         /\ \E N \in 1..NumProcs :
              \E ns \in [Procs -> {n \in Requests : Float64(n) <= c}] :
                 /\ pc = [p \in Procs |-> IF p <= N THEN "w_lock" ELSE "idle"]
                 /\ call = [p \in Procs |->
                              IF p <= N
                              THEN [op |-> "Wait", key |-> "user-1", requested |-> ns[p]]
                              ELSE NoCall]
    /\ local = [p \in Procs |-> [InitLocal EXCEPT !.bucket = 1]]
    /\ result = [p \in Procs |-> NoResult]
    /\ deducted = [p \in Procs |-> 0]
    /\ seen = [p \in Procs |-> Unseen]
    /\ hist = NoHist
    /\ InitNoRemote

NextWait ==
    \/ \E p \in Procs : Unobserved(WaitAttempt(p))
    \/ \E p \in Procs : Unobserved(WaitUntil(p))
    \/ \E p \in Procs : Unobserved(WaitTimer(p))
    \/ Unobserved(TickForever)

FairWait ==
    /\ WF_vars(Unobserved(TickForever))
    /\ \A p \in Procs :
         /\ SF_vars(Unobserved(WaitAttempt(p)))
         /\ WF_vars(Unobserved(WaitUntil(p)))
         /\ WF_vars(Unobserved(WaitTimer(p)))

SpecWait == InitWait /\ [][NextWait]_vars /\ FairWait

\* Two callers of kl.Wait(ctx, "user-1", 1) on a limiter of capacity 1, whose
\* contexts are cancelled at any moment.  The cases of a select that are
\* ready infinitely often are each taken in the end (select picks at random).
InitCancel ==
    /\ now = 0
    /\ heap = <<>>
    /\ \E r \in Rates : kl = NewKeyedLimiter(Float64(1), r)
    /\ pc = [p \in Procs |-> "idle"]
    /\ call = [p \in Procs |-> NoCall]
    /\ local = [p \in Procs |-> InitLocal]
    /\ result = [p \in Procs |-> NoResult]
    /\ deducted = [p \in Procs |-> 0]
    /\ seen = [p \in Procs |-> Unseen]
    /\ hist = NoHist
    /\ InitNoRemote

NextCancel ==
    \/ \E p \in Pair : Unobserved(CallKeyed(p, {"Wait"}, {"user-1"}, {1}, {}))
    \/ \E p \in Pair : Unobserved(GetRLock(p))
    \/ \E p \in Pair : Unobserved(GetRead(p))
    \/ \E p \in Pair : Unobserved(GetLock(p))
    \/ \E p \in Pair : Unobserved(GetWrite(p))
    \/ \E p \in Pair : Unobserved(WaitAttempt(p))
    \/ \E p \in Pair : Unobserved(WaitUntil(p))
    \/ \E p \in Pair : Unobserved(WaitCtxDone(p))
    \/ \E p \in Pair : Unobserved(WaitTimer(p))
    \/ \E p \in Pair : Unobserved(CtxCancel(p, CtxErrors))
    \/ Unobserved(TickForever)

FairCancel ==
    \A p \in Pair :
        /\ SF_vars(Unobserved(WaitAttempt(p)))
        /\ WF_vars(Unobserved(WaitUntil(p)))
        /\ SF_vars(Unobserved(WaitCtxDone(p)))

SpecCancel == InitCancel /\ [][NextCancel]_vars /\ FairCancel

\* r := NewRedisLimiter(client, capacity, refillRate, prefix, opts...) in
\* every failure mode, with a circuit breaker of threshold 1, against a store
\* that comes and goes; and a local bucket of the same capacity and rate.
\* One goroutine uses both, one call after the other.
MaxTimeout == 1

InitRemote(capacities, rates, modes, breakers, thresholds) ==
    /\ \E c \in capacities, r \in rates :
         /\ heap = <<NewTokenBucket(c, r, 0)>>
         /\ kl = NewKeyedLimiter(c, r)
         /\ \E m \in modes, b \in breakers :
              rl = NewRedisLimiter(c, r, m, b)
    /\ \E th \in thresholds, to \in 1..MaxTimeout :
         cb = NewCircuitBreaker(th, to)
    /\ obs = [p \in Procs |-> NoObs]

InitRL ==
    /\ now = 0
    /\ InitRemote({Float64(1)}, Rates, FailureModes, {TRUE}, {1})
    /\ store = NewStore
    /\ pc = [p \in Procs |-> "idle"]
    /\ call = [p \in Procs |-> NoCall]
    /\ local = [p \in Procs |-> [InitLocal EXCEPT !.bucket = 1]]
    /\ result = [p \in Procs |-> NoResult]
    /\ deducted = [p \in Procs |-> 0]
    /\ seen = [p \in Procs |-> Unseen]
    /\ hist = NoHist

\* bucket.Wait(ctx, n) with n > 0 on the local bucket, which is heap[1]
CallWaitLocal(p, kinds) ==
    /\ local[p].bucket = 1
    /\ CallWait(p, kinds)
    /\ call'[p].requested > 0

\* the goroutine turns from the RedisLimiter to the local bucket
HoldLocal(p) ==
    /\ Idle(p)
    /\ local[p].bucket # 1
    /\ local' = [local EXCEPT ![p].bucket = 1]
    /\ UNCHANGED <<now, heap, kl, pc, call, result, deducted, remote>>

NextRL ==
    \/ Unobserved(CallWaitLocal(1, CtxErrors))
    \/ Unobserved(HoldLocal(1))
    \/ Unobserved(CallRemote(1, {"R.Allow", "R.Wait"}, {"user-1"},
                             1..MaxRequested, CtxErrors))
    \/ Unobserved(WaitAttempt(1))
    \/ Unobserved(WaitUntil(1))
    \/ Unobserved(WaitCtxDone(1))
    \/ Unobserved(WaitTimer(1))
    \/ Unobserved(CtxCancel(1, CtxErrors))
    \/ Unobserved(RemoteBreaker(1))
    \/ Unobserved(RemoteRun(1))
    \/ Unobserved(RemoteReply(1))
    \/ Unobserved(handleFailure(1))
    \/ Unobserved(GetRLock(1))
    \/ Unobserved(GetRead(1))
    \/ Unobserved(GetLock(1))
    \/ Unobserved(GetWrite(1))
    \/ Unobserved(AllowBody(1))
    \/ Unobserved(handleFailureLocal(1))
    \/ Unobserved(RemoteWaitCtxDone(1))
    \/ Unobserved(RemoteWaitTimer(1))
    \/ Unobserved(RemoteCtxCancel(1, CtxErrors))
    \/ Unobserved(StoreDown)
    \/ Unobserved(StoreUp)
    \/ Unobserved(Tick)

SpecRL == InitRL /\ [][NextRL]_vars

\* cb := NewCircuitBreaker(threshold, timeout, clock) with threshold >= 1,
\* called directly by two callers while the clock advances.
InitCB ==
    /\ now = 0
    /\ heap = <<>>
    /\ kl = NewKeyedLimiter(0, 0)
    /\ rl = NewRedisLimiter(0, 0, FailOpen, TRUE)
    /\ \E th \in 1..MaxThreshold, to \in 0..(MaxTimeout + 1) :
         cb = NewCircuitBreaker(th, to)
    /\ store = NewStore
    /\ obs = [p \in Procs |-> NoObs]
    /\ pc = [p \in Procs |-> "idle"]
    /\ call = [p \in Procs |-> NoCall]
    /\ local = [p \in Procs |-> InitLocal]
    /\ result = [p \in Procs |-> NoResult]
    /\ deducted = [p \in Procs |-> 0]
    /\ seen = [p \in Procs |-> Unseen]
    /\ hist = [NoHist EXCEPT !.before = cb]

NextCB ==
    \/ \E p \in Pair : Logged(p, CallBreakerAllow(p))
    \/ \E p \in Pair : Logged(p, CallRecordSuccess(p))
    \/ \E p \in Pair : Logged(p, CallRecordFailure(p))
    \/ Unobserved(Tick)

SpecCB == InitCB /\ [][NextCB]_vars

\* Two goroutines calling r.Allow(key, tokens) on one RedisLimiter, in every
\* failure mode, with and without a breaker, the store coming and going.
\* A negative count is passed where no local bucket is involved.
InitRA ==
    /\ now = 0
    /\ InitRemote({Float64(1)}, Rates, FailureModes, BOOLEAN, 1..MaxThreshold)
    /\ store = NewStore
    /\ pc = [p \in Procs |-> "idle"]
    /\ call = [p \in Procs |-> NoCall]
    /\ local = [p \in Procs |-> InitLocal]
    /\ result = [p \in Procs |-> NoResult]
    /\ deducted = [p \in Procs |-> 0]
    /\ seen = [p \in Procs |-> Unseen]
    /\ hist = NoHist

NextRA ==
    \/ \E p \in Pair :
         Unobserved(CallRemote(p, {"R.Allow"}, {"user-1"},
                               IF rl.failureMode = FailDegrade
                               THEN {1} ELSE {MinRequested, 1}, {}))
    \/ \E p \in Pair : Unobserved(RemoteBreaker(p))
    \/ \E p \in Pair : Unobserved(RemoteRun(p))
    \/ \E p \in Pair : Unobserved(RemoteReply(p))
    \/ \E p \in Pair : Unobserved(handleFailure(p))
    \/ \E p \in Pair : Unobserved(GetRLock(p))
    \/ \E p \in Pair : Unobserved(GetRead(p))
    \/ \E p \in Pair : Unobserved(GetLock(p))
    \/ \E p \in Pair : Unobserved(GetWrite(p))
    \/ \E p \in Pair : Unobserved(AllowBody(p))
    \/ \E p \in Pair : Unobserved(handleFailureLocal(p))
    \/ Unobserved(StoreDown)
    \/ Unobserved(StoreUp)
    \/ Unobserved(Tick)

SpecRA == InitRA /\ [][NextRA]_vars

\* limiter := NewRedisLimiter(client, capacity, refillRate, prefix,
\* WithFailureMode(FailDegrade)), with or without a breaker, the client
\* pointing to a store that is never reachable; one goroutine calls
\* limiter.Allow(key, n).  With the capacity of the scenario the calls are
\* those of the scenario, n = 1 and refillRate 0, up to one more than the
\* capacity for each key; otherwise up to MaxCapacity calls for each key.
ScenarioCapacity == 5
MaxCalls ==
    IF rl.capacity = Float64(ScenarioCapacity) THEN ScenarioCapacity + 1
    ELSE MaxCapacity

InitDegrade ==
    /\ now = 0
    /\ \/ InitRemote({Float64(1)}, Rates, {FailDegrade}, BOOLEAN, 1..MaxThreshold)
       \/ InitRemote({Float64(ScenarioCapacity)}, {0}, {FailDegrade}, BOOLEAN, {1})
    /\ store = [NewStore EXCEPT !.up = FALSE]
    /\ pc = [p \in Procs |-> "idle"]
    /\ call = [p \in Procs |-> NoCall]
    /\ local = [p \in Procs |-> InitLocal]
    /\ result = [p \in Procs |-> NoResult]
    /\ deducted = [p \in Procs |-> 0]
    /\ seen = [p \in Procs |-> Unseen]
    /\ hist = [NoHist EXCEPT
                 !.ref = [kl |-> NewKeyedLimiter(rl.capacity, rl.refillRate),
                          heap |-> <<>>]]

CallDegraded(p) ==
    /\ CallRemote(p, {"R.Allow"}, Keys,
                  IF rl.capacity = Float64(ScenarioCapacity)
                  THEN {1} ELSE 0..MaxRequested, {})
    /\ hist.calls[call'[p].key] < MaxCalls

NextDegrade ==
    \/ Mirrored(1, CallDegraded(1))
    \/ Mirrored(1, RemoteBreaker(1))
    \/ Mirrored(1, RemoteRun(1))
    \/ Mirrored(1, RemoteReply(1))
    \/ Mirrored(1, handleFailure(1))
    \/ Mirrored(1, GetRLock(1))
    \/ Mirrored(1, GetRead(1))
    \/ Mirrored(1, GetLock(1))
    \/ Mirrored(1, GetWrite(1))
    \/ Mirrored(1, AllowBody(1))
    \/ Mirrored(1, handleFailureLocal(1))
    \/ Unobserved(Tick)

SpecDegrade == InitDegrade /\ [][NextDegrade]_vars

\* N concurrent limiter.Allow("user-1", 1) on a key that the store does not
\* hold yet, refillRate 0, the store reachable throughout: callers 1..N are
\* at the first line of Allow.  The breaker, where there is one, is shared
\* by callers of one instance and stays Closed; callers of other instances
\* share the store alone.
InitStore ==
    /\ now = 0
    /\ InitRemote(0..Float64(MaxCapacity), {0}, FailureModes, BOOLEAN, {1})
    /\ store = NewStore
    /\ \E N \in 1..NumProcs :
         /\ pc = [p \in Procs |-> IF p <= N THEN "r_allow" ELSE "idle"]
         /\ call = [p \in Procs |->
                      IF p <= N THEN [op |-> "R.Allow", key |-> "user-1", requested |-> 1]
                      ELSE NoCall]
    /\ local = [p \in Procs |-> InitLocal]
    /\ result = [p \in Procs |-> NoResult]
    /\ deducted = [p \in Procs |-> 0]
    /\ seen = [p \in Procs |-> Unseen]
    /\ hist = NoHist

NextStore ==
    \/ \E p \in Procs : Unobserved(RemoteBreaker(p))
    \/ \E p \in Procs : Unobserved(RemoteRun(p))
    \/ \E p \in Procs : Unobserved(RemoteReply(p))
    \/ Unobserved(Tick)

SpecStore == InitStore /\ [][NextStore]_vars

\* One goroutine calls r.Wait(ctx, "user-1", n) again and again, in every
\* failure mode, with and without a breaker, the store coming and going,
\* the context cancelled at any moment or before the call.  A goroutine
\* that can run does run; of the cases of the select that are ready again
\* and again each is taken in the end (select picks at random).
InitPoll ==
    /\ now = 0
    /\ InitRemote({Float64(1)}, Rates, FailureModes, BOOLEAN, {1})
    /\ \E up \in BOOLEAN : store = [NewStore EXCEPT !.up = up]
    /\ pc = [p \in Procs |-> "idle"]
    /\ call = [p \in Procs |-> NoCall]
    /\ local = [p \in Procs |-> InitLocal]
    /\ result = [p \in Procs |-> NoResult]
    /\ deducted = [p \in Procs |-> 0]
    /\ seen = [p \in Procs |-> Unseen]
    /\ hist = NoHist

NextPoll ==
    \/ Unobserved(CallRemote(1, {"R.Wait"}, {"user-1"}, 1..MaxRequested, CtxErrors))
    \/ Unobserved(RemoteBreaker(1))
    \/ Unobserved(RemoteRun(1))
    \/ Unobserved(RemoteReply(1))
    \/ Unobserved(handleFailure(1))
    \/ Unobserved(GetRLock(1))
    \/ Unobserved(GetRead(1))
    \/ Unobserved(GetLock(1))
    \/ Unobserved(GetWrite(1))
    \/ Unobserved(AllowBody(1))
    \/ Unobserved(handleFailureLocal(1))
    \/ Unobserved(RemoteWaitCtxDone(1))
    \/ Unobserved(RemoteWaitTimer(1))
    \/ Unobserved(RemoteCtxCancel(1, CtxErrors))
    \/ Unobserved(StoreDown)
    \/ Unobserved(StoreUp)
    \/ Unobserved(Tick)

FairPoll ==
    /\ WF_vars(Unobserved(RemoteBreaker(1)))
    /\ WF_vars(Unobserved(RemoteRun(1)))
    /\ WF_vars(Unobserved(RemoteReply(1)))
    /\ WF_vars(Unobserved(handleFailure(1)))
    /\ WF_vars(Unobserved(GetRLock(1)))
    /\ WF_vars(Unobserved(GetRead(1)))
    /\ WF_vars(Unobserved(GetLock(1)))
    /\ WF_vars(Unobserved(GetWrite(1)))
    /\ WF_vars(Unobserved(AllowBody(1)))
    /\ WF_vars(Unobserved(handleFailureLocal(1)))
    /\ SF_vars(Unobserved(RemoteWaitCtxDone(1)))

SpecPoll == InitPoll /\ [][NextPoll]_vars /\ FairPoll

\* limiter := NewRedisLimiter(client, capacity, refillRate, prefix) without
\* an option, or with WithFailureMode(mode) for each mode, with or without a
\* breaker; one goroutine calls limiter.Allow("user-1", 1) while the store
\* comes and goes.
InitDefault ==
    /\ now = 0
    /\ \E r \in Rates, b \in BOOLEAN,
          opts \in {<<>>} \cup {<<WithFailureMode(mode)>> :
                                    mode \in FailureModes \cup {FailureModeOther}} :
         /\ heap = <<>>
         /\ kl = NewKeyedLimiter(Float64(1), r)
         /\ rl = NewRedisLimiterOpts(Float64(1), r, b, opts)
         /\ hist = [NoHist EXCEPT !.opts = opts]
    /\ cb = NewCircuitBreaker(1, MaxTimeout)
    /\ obs = [p \in Procs |-> NoObs]
    /\ store = NewStore
    /\ pc = [p \in Procs |-> "idle"]
    /\ call = [p \in Procs |-> NoCall]
    /\ local = [p \in Procs |-> InitLocal]
    /\ result = [p \in Procs |-> NoResult]
    /\ deducted = [p \in Procs |-> 0]
    /\ seen = [p \in Procs |-> Unseen]

NextDefault ==
    \/ Unobserved(CallRemote(1, {"R.Allow"}, {"user-1"}, {1}, {}))
    \/ Unobserved(RemoteBreaker(1))
    \/ Unobserved(RemoteRun(1))
    \/ Unobserved(RemoteReply(1))
    \/ Unobserved(handleFailure(1))
    \/ Unobserved(GetRLock(1))
    \/ Unobserved(GetRead(1))
    \/ Unobserved(GetLock(1))
    \/ Unobserved(GetWrite(1))
    \/ Unobserved(AllowBody(1))
    \/ Unobserved(handleFailureLocal(1))
    \/ Unobserved(StoreDown)
    \/ Unobserved(StoreUp)
    \/ Unobserved(Tick)

SpecDefault == InitDefault /\ [][NextDefault]_vars

\* One caller of a bucket whose clock steps forwards and backwards.
InitClock == InitBucket(Capacities, Rates)

NextClock ==
    \/ Observed(CallAllow(1))
    \/ Observed(CallWait(1, CtxErrors))
    \/ Observed(AllowBody(1))
    \/ Observed(WaitAttempt(1))
    \/ Observed(WaitUntil(1))
    \/ Observed(WaitCtxDone(1))
    \/ Observed(WaitTimer(1))
    \/ Observed(CtxCancel(1, CtxErrors))
    \/ Observed(Tick)
    \/ Observed(TickBack)

SpecClock == InitClock /\ [][NextClock]_vars

\* kl := NewKeyedLimiter(capacity, refillRate, clock) with two concurrent
\* callers of Allow and Wait on two keys.  A goroutine that holds a lock
\* goes on to release it, and one that asks for a lock gets it if the lock
\* is free again and again (sync.Mutex hands over to a starving waiter).
\* Nothing is assumed of timers and the clock: a Wait may sleep for ever.
\* No context is cancelled.
NextLocks ==
    \/ \E p \in Pair : Unobserved(CallKeyed(p, {"Allow", "Wait"}, Keys, {1}, {}))
    \/ \E p \in Pair : Unobserved(GetRLock(p))
    \/ \E p \in Pair : Unobserved(GetRead(p))
    \/ \E p \in Pair : Unobserved(GetLock(p))
    \/ \E p \in Pair : Unobserved(GetWrite(p))
    \/ \E p \in Pair : Unobserved(AllowBody(p))
    \/ \E p \in Pair : Unobserved(WaitAttempt(p))
    \/ \E p \in Pair : Unobserved(WaitUntil(p))
    \/ \E p \in Pair : Unobserved(WaitTimer(p))
    \/ Unobserved(Tick)

FairLocks ==
    \A p \in Pair :
        /\ SF_vars(Unobserved(GetRLock(p)))
        /\ WF_vars(Unobserved(GetRead(p)))
        /\ SF_vars(Unobserved(GetLock(p)))
        /\ WF_vars(Unobserved(GetWrite(p)))
        /\ SF_vars(Unobserved(AllowBody(p)))
        /\ WF_vars(Unobserved(WaitUntil(p)))

SpecLocks == InitKL /\ [][NextLocks]_vars /\ FairLocks

\* Two goroutines keep calling r.Allow("user-1", 1) on a limiter with a
\* breaker, under FailOpen or FailClosed, while the clock keeps advancing
\* and the store comes and goes as it likes.  The breaker's timeout is of
\* one or two ticks.  A goroutine that can run does run.
InitRecover ==
    /\ now = 0
    /\ heap = <<>>
    /\ kl = NewKeyedLimiter(Float64(1), 1)
    /\ \E mode \in {FailOpen, FailClosed} :
         rl = NewRedisLimiter(Float64(1), 1, mode, TRUE)
    /\ \E th \in 1..MaxThreshold, to \in 1..(MaxTimeout + 1) :
         cb = NewCircuitBreaker(th, to)
    /\ obs = [p \in Procs |-> NoObs]
    /\ \E up \in BOOLEAN : store = [NewStore EXCEPT !.up = up]
    /\ pc = [p \in Procs |-> "idle"]
    /\ call = [p \in Procs |-> NoCall]
    /\ local = [p \in Procs |-> InitLocal]
    /\ result = [p \in Procs |-> NoResult]
    /\ deducted = [p \in Procs |-> 0]
    /\ seen = [p \in Procs |-> Unseen]
    /\ hist = NoHist

NextRecover ==
    \/ \E p \in Pair : Unobserved(CallRemote(p, {"R.Allow"}, {"user-1"}, {1}, {}))
    \/ \E p \in Pair : Unobserved(RemoteBreaker(p))
    \/ \E p \in Pair : Unobserved(RemoteRunBounded(p))
    \/ \E p \in Pair : Unobserved(RemoteReply(p))
    \/ \E p \in Pair : Unobserved(handleFailure(p))
    \/ Unobserved(StoreDown)
    \/ Unobserved(StoreUp)
    \/ Unobserved(TickForeverRemote)

FairRecover ==
    /\ WF_vars(Unobserved(TickForeverRemote))
    /\ \A p \in Pair :
         /\ WF_vars(Unobserved(CallRemote(p, {"R.Allow"}, {"user-1"}, {1}, {})))
         /\ WF_vars(Unobserved(RemoteBreaker(p)))
         /\ WF_vars(Unobserved(RemoteRunBounded(p)))
         /\ WF_vars(Unobserved(RemoteReply(p)))
         /\ WF_vars(Unobserved(handleFailure(p)))

SpecRecover == InitRecover /\ [][NextRecover]_vars /\ FairRecover

\* One goroutine calls bucket.Wait(ctx, n) on a local bucket and
\* r.Wait(ctx, "user-1", n) on a RedisLimiter, each time with a context that
\* is done already (cancelled, or past its deadline).
CallWaitDone(p) ==
    /\ CallWaitLocal(p, CtxErrors)
    /\ local'[p].ctx # Nil

CallRemoteWaitDone(p) ==
    /\ CallRemote(p, {"R.Wait"}, {"user-1"}, 1..MaxRequested, CtxErrors)
    /\ local'[p].ctx # Nil

NextPre ==
    \/ Observed(CallWaitDone(1))
    \/ Observed(HoldLocal(1))
    \/ Observed(CallRemoteWaitDone(1))
    \/ Observed(WaitAttempt(1))
    \/ Observed(WaitUntil(1))
    \/ Observed(WaitCtxDone(1))
    \/ Observed(WaitTimer(1))
    \/ Observed(RemoteBreaker(1))
    \/ Observed(RemoteRun(1))
    \/ Observed(RemoteReply(1))
    \/ Observed(handleFailure(1))
    \/ Observed(GetRLock(1))
    \/ Observed(GetRead(1))
    \/ Observed(GetLock(1))
    \/ Observed(GetWrite(1))
    \/ Observed(AllowBody(1))
    \/ Observed(handleFailureLocal(1))
    \/ Observed(RemoteWaitCtxDone(1))
    \/ Observed(RemoteWaitTimer(1))
    \/ Observed(StoreDown)
    \/ Observed(StoreUp)
    \/ Observed(Tick)

SpecPre == InitRL /\ [][NextPre]_vars

\* Two goroutines call r.Allow("user-1", n), n >= 0, against a store that is
\* reachable throughout and whose clock (redis.call("TIME"), the only reader
\* of now here) steps forwards and backwards between the runs of the script.
InitSkew ==
    /\ now = 0
    /\ InitRemote({Float64(1), Float64(MaxCapacity)}, Rates,
                  {FailOpen, FailClosed}, {FALSE}, {1})
    /\ store = NewStore
    /\ pc = [p \in Procs |-> "idle"]
    /\ call = [p \in Procs |-> NoCall]
    /\ local = [p \in Procs |-> InitLocal]
    /\ result = [p \in Procs |-> NoResult]
    /\ deducted = [p \in Procs |-> 0]
    /\ seen = [p \in Procs |-> Unseen]
    /\ hist = NoHist

NextSkew ==
    \/ \E p \in Pair :
         Unobserved(CallRemote(p, {"R.Allow"}, {"user-1"}, 0..MaxRequested, {}))
    \/ \E p \in Pair : Unobserved(RemoteBreaker(p))
    \/ \E p \in Pair : Unobserved(RemoteRun(p))
    \/ \E p \in Pair : Unobserved(RemoteReply(p))
    \/ Unobserved(Tick)
    \/ Unobserved(TickBack)

SpecSkew == InitSkew /\ [][NextSkew]_vars

\* A fresh bucket, NewTokenBucket(capacity, refillRate, clock), and a key
\* that the store does not hold, for a limiter of the same capacity and
\* refillRate.  Each call is given to both at the same clock reading:
\* bucket.Allow(n), whose answer is result[1], and the script with
\* ARGV = {n, capacity, refillRate}, whose answer is result[2]; n >= 0, the
\* clock never goes back.
InitTwin ==
    /\ now = 0
    /\ InitRemote(0..Float64(MaxCapacity), Rates, {FailOpen}, {FALSE}, {1})
    /\ store = NewStore
    /\ pc = [p \in Procs |-> "idle"]
    /\ call = [p \in Procs |-> NoCall]
    /\ local = [p \in Procs |-> [InitLocal EXCEPT !.bucket = 1]]
    /\ result = [p \in Procs |-> NoResult]
    /\ deducted = [p \in Procs |-> 0]
    /\ seen = [p \in Procs |-> Unseen]
    /\ hist = NoHist

TwinAllow ==
    \E n \in 0..MaxRequested :
        LET a == Allow(heap[1], now, n)
            s == tokenBucketScript(store.data["user-1"], now, n,
                                   rl.capacity, rl.refillRate)
        IN /\ heap' = [heap EXCEPT ![1] = a.tb]
           /\ store' = [store EXCEPT !.data["user-1"] = s.entry]
           /\ call' = [call EXCEPT
                         ![1] = [op |-> "Allow", key |-> "user-1", requested |-> n],
                         ![2] = [op |-> "script", key |-> "user-1", requested |-> n]]
           /\ result' = [result EXCEPT ![1] = a.ok, ![2] = s.allowed]
           /\ pc' = [pc EXCEPT ![1] = "done", ![2] = "done"]
           /\ UNCHANGED <<now, kl, local, deducted, rl, cb, obs>>

NextTwin ==
    \/ Unobserved(TwinAllow)
    \/ Unobserved(Tick)

SpecTwin == InitTwin /\ [][NextTwin]_vars

\* A FailDegrade limiter with refillRate 0 through outages of the store:
\* goroutines call limiter.Allow(key, n), n >= 0, while the store goes
\* down and comes back, keeping what it holds.  hist counts for each key
\* the tokens of the calls that return true, by the answer they return.
\* Without a breaker two goroutines share one key; with a breaker one
\* goroutine calls, on both keys where the capacity is one token.
Counted(p, A) ==
    /\ A
    /\ hist' = [hist EXCEPT
                  !.viaStore[call[p].key] =
                      IF pc[p] = "r_reply_1" /\ pc'[p] = "done"
                      THEN @ + Float64(call[p].requested) ELSE @,
                  !.viaLocal[call[p].key] =
                      IF pc[p] = "r_local_true" /\ pc'[p] = "done"
                      THEN @ + Float64(call[p].requested) ELSE @]
    /\ UNCHANGED seen

InitOutage ==
    /\ now = 0
    /\ heap = <<>>
    /\ \E c \in {Float64(1), Float64(MaxRequested)} :
         /\ kl = NewKeyedLimiter(c, 0)
         /\ \E b \in BOOLEAN : rl = NewRedisLimiter(c, 0, FailDegrade, b)
    /\ cb = NewCircuitBreaker(1, 1)
    /\ obs = [p \in Procs |-> NoObs]
    /\ \E up \in BOOLEAN : store = [NewStore EXCEPT !.up = up]
    /\ pc = [p \in Procs |-> "idle"]
    /\ call = [p \in Procs |-> NoCall]
    /\ local = [p \in Procs |-> InitLocal]
    /\ result = [p \in Procs |-> NoResult]
    /\ deducted = [p \in Procs |-> 0]
    /\ seen = [p \in Procs |-> Unseen]
    /\ hist = NoHist

CallOutage(p) ==
    /\ CallRemote(p, {"R.Allow"},
                  IF rl.breaker /\ rl.capacity = Float64(1) THEN Keys ELSE {"user-1"},
                  0..MaxRequested, {})
    /\ rl.breaker => p = 1

NextOutage ==
    \/ \E p \in Pair : Counted(p, CallOutage(p))
    \/ \E p \in Pair : Counted(p, RemoteBreaker(p))
    \/ \E p \in Pair : Counted(p, RemoteRun(p))
    \/ \E p \in Pair : Counted(p, RemoteReply(p))
    \/ \E p \in Pair : Counted(p, handleFailure(p))
    \/ \E p \in Pair : Counted(p, GetRLock(p))
    \/ \E p \in Pair : Counted(p, GetRead(p))
    \/ \E p \in Pair : Counted(p, GetLock(p))
    \/ \E p \in Pair : Counted(p, GetWrite(p))
    \/ \E p \in Pair : Counted(p, AllowBody(p))
    \/ \E p \in Pair : Counted(p, handleFailureLocal(p))
    \/ Unobserved(StoreDown)
    \/ Unobserved(StoreUp)
    \/ Unobserved(Tick)

SpecOutage == InitOutage /\ [][NextOutage]_vars

\* ---------------------------------------------------------------- claims
Buckets == 1..Len(heap)
Done(p, op) == pc[p] = "done" /\ call[p].op = op
Requested(p) == Float64(call[p].requested)

\* C1: in every reachable state of a bucket, after any interleaving of Allow
\* and Wait calls with any requested value (zero and negative included) and
\* any clock advance, 0 <= tokens <= capacity.
TokensWithinCapacity ==
    \A b \in Buckets : 0 <= heap[b].tokens /\ heap[b].tokens <= heap[b].capacity

\* C2: N concurrent Allow(n), n >= 1, with no elapsed time on a bucket holding
\* T tokens: once all have returned, exactly min(N, floor(T/n)) returned true
\* and the bucket holds T minus n times that number.
Callers == {p \in Procs : call[p].op = "Allow"}
Admitted == {p \in Callers : result[p] = TRUE}
ConcurrentAllowLinearizable ==
    (\A p \in Callers : pc[p] = "done") =>
        LET T == kl.capacity
            n == Float64(call[1].requested)
            k == Min(Cardinality(Callers), T \div n)
        IN /\ Cardinality(Admitted) = k
           /\ Len(heap) = 1
           /\ heap[kl.buckets["user-1"]].tokens = T - n * k
ConcurrentAllowWitness ==
    /\ \A p \in Callers : pc[p] = "done"
    /\ Cardinality(Callers) = NumProcs
    /\ Cardinality(Admitted) >= 2
    /\ \E p \in Callers : result[p] = FALSE

\* C3: Allow(n), 0 < n <= capacity, made when the clock is d > 0 past the last
\* refill of a bucket holding t, decides on t1 = min(capacity, t + d*refillRate):
\* true leaving t1 - n iff t1 >= n, else false leaving t1.  The two scenarios
\* of the specification (capacity 10, rate 2) are evaluated with it.
Refilled(p) ==
    Min(heap[local[p].bucket].capacity,
        seen[p].tokens + seen[p].elapsed * heap[local[p].bucket].refillRate)
Scenario(first, secs, second, third) ==
    LET b0 == NewTokenBucket(Float64(10), 2, 0)
        a1 == Allow(b0, 0, first)
        a2 == Allow(a1.tb, secs * Unit, second)
        a3 == Allow(a2.tb, secs * Unit, third)
    IN <<a1.ok, a2.ok, a3.ok, a3.tb.tokens>>
RefillThenConsume ==
    /\ Scenario(10, 1, 2, 1) = <<TRUE, TRUE, FALSE, 0>>
    /\ Scenario(5, 60, 10, 1) = <<TRUE, TRUE, FALSE, 0>>
    /\ \A p \in Procs :
         (/\ Done(p, "Allow")
          /\ seen[p].elapsed > 0
          /\ 0 < Requested(p)
          /\ Requested(p) <= heap[local[p].bucket].capacity)
         => /\ result[p] = (Refilled(p) >= Requested(p))
            /\ heap[local[p].bucket].tokens =
                 IF Refilled(p) >= Requested(p)
                 THEN Refilled(p) - Requested(p) ELSE Refilled(p)
RefillThenConsumeWitness ==
    \E p \in Procs :
        /\ Done(p, "Allow")
        /\ seen[p].elapsed > 0
        /\ 0 < Requested(p)
        /\ seen[p].tokens < Requested(p)
        /\ result[p] = TRUE
        /\ heap[local[p].bucket].tokens > 0

\* C4: a Wait that returns ctx.Err() has taken nothing from the bucket, at
\* any point of the call.
WaitCancelledTakesNothing ==
    \A p \in Procs :
        (Done(p, "Wait") /\ result[p] \in CtxErrors) => deducted[p] = 0
WaitCancelledWitness ==
    \E p, q \in Procs :
        /\ Done(p, "Wait") /\ result[p] \in CtxErrors
        /\ Done(q, "Wait") /\ result[q] = Nil /\ deducted[q] > 0

\* C5 as stated: a Wait that was blocked in its select when its context was
\* done returns the error of the context.
BlockedWaitReturnsCtxErr ==
    \A p \in Procs :
        (Done(p, "Wait") /\ local[p].passed) => result[p] = local[p].ctx

\* C5 amended: a Wait blocked in its select with a done context returns in
\* the end, and what it returns is the error of its own context, or nil when
\* it took the timer case and the next attempt found its tokens (which it
\* has consumed); with refillRate 0 and nothing added it is the error.
CtxErrOrTokens(p) ==
    \/ result[p] = local[p].ctx
    \/ /\ result[p] = Nil
       /\ local[p].passed
       /\ deducted[p] = Requested(p)
       /\ heap[local[p].bucket].refillRate > 0
BlockedWaitReturns ==
    /\ [](\A p \in Procs :
            (Done(p, "Wait") /\ result[p] \in CtxErrors)
            => (result[p] = local[p].ctx /\ deducted[p] = 0))
    /\ \A p \in Procs :
         (pc[p] = "w_select" /\ local[p].ctx # Nil)
         ~> (Done(p, "Wait") /\ CtxErrOrTokens(p))
BlockedWaitWitness ==
    \E p \in Procs :
        /\ Done(p, "Wait")
        /\ result[p] = DeadlineExceeded
        /\ heap[local[p].bucket].refillRate = 0
        /\ local[p].passed

\* C6: every one of the concurrent Waits returns nil in the end, and what it
\* has taken from the bucket is exactly its own requested, once.
WaitersAllServed ==
    \A p \in Procs :
        call[p].op = "Wait" =>
            /\ [](deducted[p] = 0 \/ (pc[p] = "done" /\ deducted[p] = Requested(p)))
            /\ <>[](pc[p] = "done" /\ result[p] = Nil /\ deducted[p] = Requested(p))
WaitersAllServedWitness ==
    /\ \A p \in Procs : Done(p, "Wait") /\ result[p] = Nil /\ Requested(p) > 0
    /\ Requested(1) + Requested(2) > heap[1].capacity
    /\ \E p \in Procs : Requested(p) = heap[1].capacity

\* C7: a Wait that asks for more than the capacity, on the local bucket or on
\* the RedisLimiter, is over as soon as it is called: it is never in its loop,
\* its result is ErrExceedsCapacity whatever its context, it has deducted
\* nothing, and on the RedisLimiter it has called neither the breaker nor
\* the script nor Metrics.
WaitOver(p) ==
    \/ /\ call[p].op = "Wait"
       /\ Float64(call[p].requested) > heap[local[p].bucket].capacity
    \/ /\ call[p].op = "R.Wait"
       /\ Float64(call[p].requested) > rl.capacity

WaitOverCapacityFails ==
    \A p \in Procs :
        WaitOver(p) =>
            /\ pc[p] = "done"
            /\ result[p] = ErrExceedsCapacity
            /\ deducted[p] = 0
            /\ call[p].op = "R.Wait" => obs[p] = NoObs

\* r.Wait(ctx, key, n) with n > capacity and a cancelled ctx has returned;
\* the store holds tokens for the key, and the local bucket has been drawn on
WaitOverCapacityWitness ==
    /\ call[1].op = "R.Wait"
    /\ WaitOver(1)
    /\ pc[1] = "done"
    /\ local[1].ctx = Canceled
    /\ store.up
    /\ store.data[call[1].key].exists
    /\ store.data[call[1].key].tokens = rl.capacity
    /\ heap[1].tokens < heap[1].capacity

\* C8: Allow(n) with n > capacity returns false and deducts nothing, whatever
\* the token level and the elapsed time.
AllowOverCapacityDenied ==
    \A p \in Procs :
        (Done(p, "Allow") /\ Requested(p) > heap[local[p].bucket].capacity)
        => /\ result[p] = FALSE
           /\ deducted[p] = 0
           /\ heap[local[p].bucket].tokens =
                 IF seen[p].elapsed > 0 THEN Refilled(p) ELSE seen[p].tokens
AllowOverCapacityWitness ==
    \E p \in Procs :
        /\ Done(p, "Allow")
        /\ Requested(p) > heap[local[p].bucket].capacity
        /\ seen[p].tokens >= Requested(p)
        /\ result[p] = FALSE

\* C9: a step that changes the token count or the refill timestamp of the
\* bucket of a key is a step of a call on that key.
KeysIndependent ==
    [][\A k \in Keys :
         LET b == kl.buckets[k] IN
         (b # NoBucket /\ (heap'[b].tokens # heap[b].tokens
                           \/ heap'[b].lastRefill # heap[b].lastRefill))
         => \E p \in Procs : pc'[p] # pc[p] /\ call[p].key = k]_vars
KeysIndependentWitness ==
    \E p, q \in Procs :
        /\ Done(p, "Allow") /\ Done(q, "Allow")
        /\ call[p].key # call[q].key
        /\ result[p] = FALSE
        /\ result[q] = TRUE
        /\ heap[local[p].bucket].tokens < Requested(p)

\* C10: one bucket per key: every bucket ever created is the bucket of exactly
\* one key, and every caller holds the bucket the map has for its key.
OneBucketPerKey ==
    /\ \A b \in Buckets : Cardinality({k \in Keys : kl.buckets[k] = b}) = 1
    /\ \A k \in Keys : kl.buckets[k] \in {NoBucket} \cup Buckets
    /\ \A p \in Procs :
         local[p].bucket # NoBucket => local[p].bucket = kl.buckets[call[p].key]
OneBucketPerKeyWitness ==
    \E p, q \in Procs :
        /\ p # q
        /\ call[p].key = call[q].key
        /\ pc[q] = "g_write"
        /\ local[p].bucket # NoBucket
        /\ local[p].bucket = kl.buckets[call[q].key]

\* ---------------------------------------------------------------- claims on the breaker
\* C11: a breaker is Closed with no failures before any call; it is Closed
\* as long as fewer than threshold failures have been recorded in a row; it
\* is Open when the RecordFailure that makes threshold in a row returns; and
\* an Allow that finds it Open less than timeout after the last failure
\* returns false and leaves it as it was.
BreakerOpensAtThreshold ==
    /\ hist.op = "none" => (cb.state = CircuitClosed /\ cb.failures = 0)
    /\ hist.streak < cb.threshold => cb.state = CircuitClosed
    /\ (hist.op = "cb.RecordFailure" /\ hist.streak = cb.threshold)
       => cb.state = CircuitOpen
    /\ (/\ hist.op = "cb.Allow"
        /\ hist.before.state = CircuitOpen
        /\ hist.at - hist.before.lastFailure < cb.timeout)
       => (hist.ret = FALSE /\ cb = hist.before)

\* MaxThreshold failures in a row, time has passed, and Allow said no
BreakerOpensWitness ==
    /\ hist.op = "cb.Allow"
    /\ hist.before.state = CircuitOpen
    /\ hist.streak = cb.threshold
    /\ cb.threshold = MaxThreshold
    /\ hist.at > cb.lastFailure
    /\ hist.ret = FALSE

\* C12: an Allow that finds the breaker Open at least timeout after the last
\* failure returns true and leaves it HalfOpen; an Allow that finds it
\* HalfOpen returns true and leaves it HalfOpen, whoever the caller is.
BreakerHalfOpenAdmitsAll ==
    /\ (/\ hist.op = "cb.Allow"
        /\ hist.before.state = CircuitOpen
        /\ hist.at - hist.before.lastFailure >= cb.timeout)
       => (hist.ret = TRUE /\ cb.state = CircuitHalfOpen)
    /\ (hist.op = "cb.Allow" /\ hist.before.state = CircuitHalfOpen)
       => (hist.ret = TRUE /\ cb = hist.before)

\* caller 1 moved the breaker to HalfOpen, caller 2 was let through after it
BreakerHalfOpenWitness ==
    /\ hist.op = "cb.Allow"
    /\ hist.by = 2
    /\ hist.before.state = CircuitHalfOpen
    /\ call[1].op = "cb.Allow"
    /\ result[1] = TRUE
    /\ cb.timeout > 0

\* C13: when RecordSuccess returns, failures is 0 and the state is Closed,
\* whatever state and count it found.
RecordSuccessCloses ==
    hist.op = "cb.RecordSuccess" => (cb.failures = 0 /\ cb.state = CircuitClosed)

RecordSuccessWitness ==
    /\ hist.op = "cb.RecordSuccess"
    /\ hist.before.state = CircuitOpen
    /\ hist.before.failures > hist.before.threshold

\* C14: when a RecordFailure that found the breaker HalfOpen returns, the
\* state is Open and lastFailure is the time of that call.
HalfOpenFailureReopens ==
    (hist.op = "cb.RecordFailure" /\ hist.before.state = CircuitHalfOpen)
    => (cb.state = CircuitOpen /\ cb.lastFailure = hist.at)

HalfOpenFailureWitness ==
    /\ hist.op = "cb.RecordFailure"
    /\ hist.before.state = CircuitHalfOpen
    /\ cb.threshold = MaxThreshold
    /\ hist.at > hist.before.lastFailure

\* ---------------------------------------------------------------- claims on r.Allow
\* the r.Allow of p took a failure path: the breaker said no, or the script
\* run came back with an error
FailurePath(p) == obs[p].rejected \/ obs[p].reply = "err"

\* C15: an r.Allow that has returned has returned a boolean; if the breaker
\* rejected it or its script run failed, the boolean is true under FailOpen
\* and false under FailClosed.
FailureModeDecides ==
    \A p \in Procs :
        Done(p, "R.Allow") =>
            /\ result[p] \in BOOLEAN
            /\ (FailurePath(p) /\ rl.failureMode = FailOpen) => result[p] = TRUE
            /\ (FailurePath(p) /\ rl.failureMode = FailClosed) => result[p] = FALSE

\* under FailClosed, one call was rejected by the breaker and the other,
\* with a negative count, got a transport error
FailureModeWitness ==
    /\ rl.failureMode = FailClosed
    /\ Done(1, "R.Allow") /\ obs[1].rejected /\ result[1] = FALSE
    /\ Done(2, "R.Allow") /\ obs[2].reply = "err" /\ result[2] = FALSE
    /\ call[2].requested < 0

\* C17: an r.Allow never runs the script twice; one that the breaker rejected
\* has not run it at all, has told Metrics of one error and of no latency,
\* and returns what the failure mode decides (under FailDegrade, what the
\* local limiter answered); one that the breaker admitted, or that has no
\* breaker, has run it once when it returns.
ModeDecision(p) ==
    IF rl.failureMode = FailOpen THEN TRUE
    ELSE IF rl.failureMode = FailClosed THEN FALSE
    ELSE deducted[p] = Requested(p)

RejectedSkipsStore ==
    \A p \in Procs :
        /\ obs[p].runs <= 1
        /\ obs[p].rejected => (obs[p].runs = 0 /\ obs[p].reply = "none")
        /\ Done(p, "R.Allow") =>
             IF obs[p].rejected
             THEN /\ obs[p].onError = 1
                  /\ obs[p].onLatency = 0
                  /\ result[p] = ModeDecision(p)
             ELSE obs[p].runs = 1

\* caller 1 was rejected while the store was reachable; caller 2, after it,
\* was admitted by the same breaker and ran the script
RejectedSkipsStoreWitness ==
    /\ Done(1, "R.Allow") /\ obs[1].rejected
    /\ store.up
    /\ Done(2, "R.Allow") /\ obs[2].breaker = 1 /\ ~obs[2].rejected
    /\ obs[2].reply = "allow"

\* C18: with a breaker, an r.Allow that has returned has called RecordFailure
\* once if its script run came back with an error and not otherwise, and
\* RecordSuccess once if it came back with a reply and not otherwise; the
\* step that takes in a denial leaves the breaker Closed with no failures.
\* Without a breaker it has called neither.
BreakerFollowsTransport ==
    /\ [](\A p \in Procs :
            Done(p, "R.Allow") =>
              /\ obs[p].recordFailure =
                   (IF rl.breaker /\ obs[p].reply = "err" THEN 1 ELSE 0)
              /\ obs[p].recordSuccess =
                   (IF rl.breaker /\ obs[p].reply \in {"allow", "deny"} THEN 1 ELSE 0))
    /\ [][\A p \in Procs :
            (rl.breaker /\ pc[p] = "r_reply_0" /\ pc'[p] # pc[p])
            => (cb'.state = CircuitClosed /\ cb'.failures = 0)]_vars

\* a denial by the store has closed a breaker that was HalfOpen
BreakerFollowsWitness ==
    /\ rl.breaker
    /\ Done(1, "R.Allow") /\ obs[1].reply = "deny" /\ obs[1].recordSuccess = 1
    /\ Done(2, "R.Allow") /\ obs[2].reply = "err" /\ obs[2].recordFailure = 1
    /\ cb.state = CircuitClosed
    /\ cb.threshold = 1

\* C19: an r.Allow that has returned has told Metrics of one allow or one
\* deny, the one that it returned; of one latency if it ran the script and
\* of none otherwise; of one error if it took a failure path and of none
\* otherwise.
MetricsOncePerCall ==
    \A p \in Procs :
        Done(p, "R.Allow") =>
            /\ obs[p].onAllow + obs[p].onDeny = 1
            /\ obs[p].onAllow = 1 <=> result[p] = TRUE
            /\ obs[p].onLatency = obs[p].runs
            /\ obs[p].onError = (IF FailurePath(p) THEN 1 ELSE 0)

\* under FailDegrade, a transport error answered by the local limiter with
\* a denial, and a rejection by the breaker
MetricsOnceWitness ==
    /\ rl.failureMode = FailDegrade
    /\ Done(1, "R.Allow") /\ obs[1].reply = "err" /\ result[1] = FALSE
    /\ Done(2, "R.Allow") /\ obs[2].rejected /\ obs[2].onDeny = 1

\* C16: under FailDegrade with the store unreachable, each r.Allow(key, n)
\* returns what the reference KeyedLimiter of the same capacity and
\* refillRate returns to the same call; with capacity 5 and refillRate 0 the
\* first five Allow(key, 1) of a key return true and the sixth false.
DegradeFollowsKeyedLimiter ==
    Done(1, "R.Allow") =>
        /\ result[1] = hist.answer
        /\ obs[1].runs = 0 \/ obs[1].reply = "err"
        /\ rl.capacity = Float64(ScenarioCapacity)
           => (result[1] = TRUE <=> hist.calls[call[1].key] <= ScenarioCapacity)

\* the sixth call of the scenario on one key is denied while the other key
\* has had two calls
DegradeWitness ==
    /\ Done(1, "R.Allow")
    /\ rl.capacity = Float64(ScenarioCapacity)
    /\ hist.calls[call[1].key] = ScenarioCapacity + 1
    /\ result[1] = FALSE
    /\ \E k \in Keys : hist.calls[k] = 2

\* C20: of the concurrent r.Allow(key, 1) whose script has run, as many
\* were allowed as there are whole tokens in the capacity, or all of them if
\* they are fewer: the runs that come first are allowed and the later ones
\* denied, in every interleaving.  When all have returned, the admitted
\* calls are exactly those, min(N, capacity) of them, and the store holds
\* the capacity less one token for each.
RemoteCallers == {p \in Procs : call[p].op = "R.Allow"}
Ran == {p \in RemoteCallers : obs[p].reply # "none"}
RanAllowed == {p \in RemoteCallers : obs[p].reply = "allow"}

StoreAdmitsCapacity ==
    /\ Cardinality(RanAllowed) = Min(Cardinality(Ran), rl.capacity \div Unit)
    /\ (\A p \in RemoteCallers : pc[p] = "done") =>
         /\ {p \in RemoteCallers : result[p] = TRUE} = RanAllowed
         /\ Cardinality(RanAllowed) =
              Min(Cardinality(RemoteCallers), rl.capacity \div Unit)
         /\ store.data["user-1"].tokens =
              rl.capacity - Float64(Cardinality(RanAllowed))

\* NumProcs callers, capacity for two and a half: caller 1 was denied
StoreAdmitsWitness ==
    /\ Cardinality(RemoteCallers) = NumProcs
    /\ \A p \in RemoteCallers : pc[p] = "done"
    /\ rl.capacity = Float64(2) + 1
    /\ result[1] = FALSE
    /\ Cardinality(RanAllowed) = 2

\* ---------------------------------------------------------------- claims on r.Wait
\* the last poll of p's r.Wait: its r.Allow returned true / false
PollAllowed(p) == obs[p].onAllow = 1 /\ obs[p].onDeny = 0
PollDenied(p) == obs[p].onAllow = 0 /\ obs[p].onDeny = 1

\* what an r.Wait is at in its select, and what it has returned
PollSafe ==
    \A p \in Procs :
        /\ (call[p].op = "R.Wait" /\ pc[p] = "r_select") =>
              /\ PollDenied(p)
              /\ rl.failureMode = FailOpen => ~FailurePath(p)
        /\ (Done(p, "R.Wait") /\ ~RemoteWaitExceeds(rl, call[p].requested)) =>
              /\ \/ result[p] = Nil /\ PollAllowed(p)
                 \/ /\ result[p] \in CtxErrors
                    /\ result[p] = local[p].ctx
                    /\ PollDenied(p)
              /\ (rl.failureMode = FailOpen /\ FailurePath(p)) => result[p] = Nil
              /\ (rl.failureMode = FailClosed /\ result[p] = Nil) =>
                    obs[p].reply = "allow"

\* C21: an r.Wait for no more than the capacity goes on (to the select) only
\* after a poll whose Allow returned false, and returns either nil, right
\* after a poll whose Allow returned true, or the error of its context,
\* which is done then, after a poll whose Allow returned false; nothing
\* else.  Under FailOpen a poll that found the store unreachable ends the
\* Wait with nil; under FailClosed a Wait that returned nil was allowed by
\* the store.  Once the context is done the Wait returns.
PollingWaitReturns ==
    /\ []PollSafe
    /\ \A p \in {1} :
         (call[p].op = "R.Wait" /\ ~Idle(p) /\ local[p].ctx # Nil)
            ~> Done(p, "R.Wait")

\* under FailClosed, after some time and with the store unreachable at the
\* last poll, a Wait has returned the error of its context
PollingWaitWitness ==
    /\ rl.failureMode = FailClosed
    /\ ~store.up
    /\ Done(1, "R.Wait")
    /\ obs[1].reply = "err"
    /\ result[1] = Canceled
    /\ now > 0

\* ---------------------------------------------------------------- claims on NewRedisLimiter
\* C22: an r.Allow of a limiter constructed without a failure-mode option
\* that took a failure path (breaker open or store unreachable) was answered
\* by the local limiter: a local bucket was consulted and the call was
\* allowed exactly if that bucket gave up the tokens.
DefaultFallsBackToLocal ==
    \A p \in Procs :
        (hist.opts = <<>> /\ Done(p, "R.Allow") /\ FailurePath(p)) =>
            /\ local[p].bucket # NoBucket
            /\ result[p] = (deducted[p] = Requested(p))

\* what the code does instead: without an option the mode is FailOpen, and
\* a call on a failure path is allowed without any bucket being consulted
DefaultIsFailOpen ==
    hist.opts = <<>> =>
        /\ rl.failureMode = FailOpen
        /\ \A p \in Procs :
             (Done(p, "R.Allow") /\ FailurePath(p)) =>
                 result[p] = TRUE /\ local[p].bucket = NoBucket

\* A mode that is none of the three constants: a call on the failure path
\* returns true, tells Metrics nothing of the answer, and no local bucket
\* is made.
OtherModeAnswersTrue ==
    rl.failureMode = FailureModeOther =>
        /\ heap = <<>>
        /\ \A p \in Procs :
             (Done(p, "R.Allow") /\ FailurePath(p)) =>
                 result[p] = TRUE /\ obs[p].onAllow = 0 /\ obs[p].onDeny = 0

DefaultIsFailOpenWitness ==
    /\ hist.opts = <<>>
    /\ ~store.up
    /\ Done(1, "R.Allow") /\ obs[1].reply = "err"
    /\ result[1] = TRUE

\* ---------------------------------------------------------------- claims on edge requests
\* the token count that p's deciding step had after its refill
AfterRefill(p) == IF seen[p].elapsed > 0 THEN Refilled(p) ELSE seen[p].tokens

\* C23: an Allow(requested) with requested <= 0 that has returned has
\* returned true, and the bucket holds the token count its refill produced:
\* nothing was removed and nothing added.
NonPositiveAllowIsNoOp ==
    \A p \in Procs :
        (Done(p, "Allow") /\ call[p].requested <= 0) =>
            /\ result[p] = TRUE
            /\ heap[local[p].bucket].tokens = AfterRefill(p)

\* what holds of the code: Allow(0) is such a no-op, and a negative request
\* is allowed and leaves the refilled count less requested, that is more
NonPositiveAllowAdds ==
    \A p \in Procs :
        (Done(p, "Allow") /\ call[p].requested <= 0) =>
            /\ result[p] = TRUE
            /\ heap[local[p].bucket].tokens = AfterRefill(p) - Requested(p)

\* C24 as stated: on a bucket constructed with capacity 0 every Allow that
\* has returned has returned false, whatever was requested.
ZeroCapacityDeniesAll ==
    \A p \in Procs :
        (Done(p, "Allow") /\ heap[local[p].bucket].capacity = 0) =>
            result[p] = FALSE

\* C24: on a bucket constructed with capacity 0 an Allow that has returned
\* has returned false exactly if more than 0 tokens were requested, at any
\* time and whatever the bucket held; one for a positive count took nothing.
ZeroCapacityDeniesPositive ==
    \A p \in Procs :
        (Done(p, "Allow") /\ heap[local[p].bucket].capacity = 0) =>
            /\ result[p] = (call[p].requested <= 0)
            /\ call[p].requested > 0 =>
                 /\ deducted[p] = 0
                 /\ heap[local[p].bucket].tokens = AfterRefill(p)

\* capacity 0, refillRate > 0, the clock past 0: Allow(1) was denied by a
\* bucket that held a token (which an Allow(-1) had put there)
ZeroCapacityWitness ==
    /\ heap[1].capacity = 0
    /\ heap[1].refillRate > 0
    /\ now > 0
    /\ Done(1, "Allow")
    /\ call[1].requested = 1
    /\ seen[1].tokens >= Requested(1)
    /\ result[1] = FALSE

\* ---------------------------------------------------------------- claims on the clock
\* what the step of caller 1 takes out of the bucket
Taken == IF Idle(1) THEN 0 ELSE deducted'[1] - deducted[1]

\* C25: in every step, the refill timestamp of a bucket either stays or
\* moves to the clock reading, which is later than it; it never goes back,
\* so no stretch of time is credited twice.  With the clock at or before
\* lastRefill a step leaves lastRefill alone and changes the token count by
\* what the caller takes only; with the clock past lastRefill, a step that
\* refills credits the elapsed time once, up to capacity.
RefillStepsForwardOnly ==
    [][\A b \in Buckets :
         /\ heap'[b].lastRefill >= heap[b].lastRefill
         /\ heap'[b].lastRefill # heap[b].lastRefill =>
               /\ now > heap[b].lastRefill
               /\ heap'[b].lastRefill = now
               /\ heap'[b].tokens + Taken =
                     Min(heap[b].tokens + (now - heap[b].lastRefill) * heap[b].refillRate,
                         heap[b].capacity)
         /\ heap'[b].lastRefill = heap[b].lastRefill =>
               heap'[b].tokens + Taken = heap[b].tokens
         /\ now <= heap[b].lastRefill =>
               heap'[b].lastRefill = heap[b].lastRefill]_vars

\* the clock is behind lastRefill of a bucket with refillRate > 0, and an
\* Allow(n), n > 0, made then has taken n from the tokens it found
ClockBackWitness ==
    /\ now < heap[1].lastRefill
    /\ heap[1].refillRate > 0
    /\ Done(1, "Allow")
    /\ seen[1].elapsed < 0
    /\ call[1].requested > 0
    /\ result[1] = TRUE
    /\ heap[1].tokens = seen[1].tokens - Requested(1)

\* ---------------------------------------------------------------- claims on locks
\* p holds kl.mu (for reading or writing) / the mutex of a bucket
HoldsMapLock(p) == p \in kl.readers \/ kl.writer = p
HoldsBucketLock(p) == \E b \in Buckets : heap[b].mu = p

\* which locks a caller holds, and where it is then
LockDiscipline ==
    \A p \in Procs :
        /\ ~(HoldsMapLock(p) /\ HoldsBucketLock(p))
        /\ pc[p] = "w_select" => ~HoldsBucketLock(p)
        /\ HoldsBucketLock(p) => pc[p] = "w_until"
        /\ p \in kl.readers => pc[p] = "g_read"
        /\ kl.writer = p => pc[p] = "g_write"

\* C26: no caller holds kl.mu and a bucket's mutex at once; a Wait in its
\* select holds no bucket mutex; whoever holds a lock is at a step that
\* needs no other lock (so no caller waits for a lock in vain); and an
\* Allow that has been called returns, whatever the Waits do.
AllowNeverBlocked ==
    /\ []LockDiscipline
    /\ \A p \in Pair :
         (call[p].op = "Allow" /\ ~Idle(p)) ~> Done(p, "Allow")

\* caller 1 has returned from Allow on the key on whose bucket caller 2 is
\* asleep in Wait
AllowNeverBlockedWitness ==
    /\ Done(1, "Allow")
    /\ call[2].op = "Wait" /\ pc[2] = "w_select"
    /\ call[2].key = call[1].key
    /\ local[2].bucket = local[1].bucket

\* ---------------------------------------------------------------- claims on breaker and store
\* the breaker of the limiter is Open and its timeout has not elapsed
OpenUnexpired ==
    rl.breaker /\ cb.state = CircuitOpen /\ now - cb.lastFailure < cb.timeout

\* the step is the script run of p's r.Allow
RunStep(p) == pc[p] = "r_run" /\ pc'[p] # "r_run"

\* C27 as stated: no script run is made at a moment when the breaker is
\* Open with less than the timeout elapsed since the last failure.
NoRunWhileOpen ==
    [][\A p \in Procs : RunStep(p) => ~OpenUnexpired]_vars

\* C27: a script run is made only by a call that the breaker, at the call's
\* own check, did not find Open with less than the timeout elapsed: the
\* check that lets a call through to the run is made with the breaker
\* Closed, HalfOpen, or Open with the timeout elapsed, and leaves it Closed
\* or HalfOpen.
RunOnlyIfAdmitted ==
    [][\A p \in Procs :
         /\ (rl.breaker /\ RunStep(p)) =>
               obs[p].breaker = 1 /\ ~obs[p].rejected
         /\ (rl.breaker /\ pc[p] = "r_allow" /\ pc'[p] = "r_run") =>
               /\ ~OpenUnexpired
               /\ cb'.state # CircuitOpen
         /\ (pc[p] = "r_allow" /\ OpenUnexpired) =>
               (pc'[p] \in {"r_allow", "r_fail"} /\ (pc'[p] = "r_fail" => cb' = cb))]_vars

\* caller 1 passed its check and is about to run the script, with the store
\* reachable, while the breaker, opened since by the failure of caller 2, is
\* Open and its timeout has not elapsed
RunWhileOpenWitness ==
    /\ pc[1] = "r_run"
    /\ obs[1].breaker = 1 /\ ~obs[1].rejected
    /\ OpenUnexpired
    /\ store.up
    /\ obs[2].recordFailure = 1

\* C28: the breaker is Closed exactly if its failure count is below its
\* threshold (so Open and HalfOpen have a count of at least the threshold),
\* in every state; and the step from Open to HalfOpen leaves the count as
\* it is.
StateMatchesCount ==
    /\ [](cb.threshold >= 1 =>
            ((cb.state = CircuitClosed) <=> (cb.failures < cb.threshold)))
    /\ [][(cb.state = CircuitOpen /\ cb'.state = CircuitHalfOpen) =>
             cb'.failures = cb.failures]_vars

\* the breaker is HalfOpen, by an Allow after the timeout, with a failure
\* count above its threshold of 2
StateMatchesCountWitness ==
    /\ cb.threshold = 2
    /\ cb.state = CircuitHalfOpen
    /\ cb.failures > cb.threshold
    /\ hist.op = "cb.Allow" /\ hist.ret = TRUE
    /\ hist.before.state = CircuitOpen

\* the step of a call that the open breaker rejects, and its return
RejectionLeavesBreaker ==
    \A p \in Procs :
        /\ (pc[p] = "r_allow" /\ pc'[p] = "r_fail") => cb' = cb
        /\ (obs[p].rejected /\ pc'[p] = "done") =>
              obs'[p].recordFailure = 0 /\ obs'[p].recordSuccess = 0

\* C29: a call that the open breaker rejects leaves the breaker as it is
\* (no failure recorded, lastFailure not refreshed) and has called neither
\* RecordFailure nor RecordSuccess when it returns; and if from some point
\* on the store is reachable for good, then, the clock advancing and the
\* callers calling, from some point on the breaker is Closed for good.
BreakerRecovers ==
    /\ [][RejectionLeavesBreaker]_vars
    /\ (<>[]store.up) => <>[](cb.state = CircuitClosed)

\* the breaker is Closed again with no failure counted: the call of caller
\* 1 was rejected by the open breaker, and the later call of caller 2 was
\* let through and succeeded
BreakerRecoversWitness ==
    /\ cb.state = CircuitClosed /\ cb.failures = 0
    /\ store.up
    /\ Done(1, "R.Allow") /\ obs[1].rejected
    /\ Done(2, "R.Allow") /\ obs[2].recordSuccess = 1

\* ---------------------------------------------------------------- claims on Wait and a done context
\* the token count that the attempt p is about to make will find
Found(p) == refill(heap[local[p].bucket], now).tokens

\* C30: with a context that is done from the start, an attempt of
\* bucket.Wait that finds the tokens takes them and returns nil; the Wait
\* comes to its select only from a failed attempt, and returns the error of
\* the context only from the select.  r.Wait likewise: it returns nil on an
\* Allow that returned true, comes to its select only from an Allow that
\* returned false, and returns the error of the context only from there.
AttemptBeforeContext ==
    [][\A p \in Procs :
         /\ (call[p].op = "Wait" /\ pc[p] = "w_lock" /\ pc'[p] # "w_lock") =>
               IF Found(p) >= Requested(p)
               THEN /\ pc'[p] = "done" /\ result'[p] = Nil
                    /\ heap'[local[p].bucket].tokens = Found(p) - Requested(p)
               ELSE pc'[p] = "w_until"
         /\ (call'[p].op = "Wait" /\ pc'[p] = "w_select" /\ pc[p] # "w_select") =>
               pc[p] = "w_until"
         /\ (call'[p].op = "Wait" /\ pc'[p] = "done" /\ pc[p] # "done"
               /\ result'[p] \in CtxErrors) =>
               pc[p] = "w_select"
         /\ (call'[p].op = "R.Wait" /\ pc'[p] = "r_select" /\ pc[p] # "r_select") =>
               obs'[p].onDeny = 1 /\ obs'[p].onAllow = 0
         /\ (call'[p].op = "R.Wait" /\ pc'[p] = "done" /\ pc[p] # "done") =>
               \/ result'[p] = ErrExceedsCapacity /\ Idle(p)
               \/ result'[p] = Nil /\ obs'[p].onAllow = 1
               \/ result'[p] \in CtxErrors /\ pc[p] = "r_select"]_vars

\* a bucket.Wait(ctx, n), n > 0, with ctx cancelled before the call has
\* returned nil and taken n tokens
AttemptBeforeContextWitness ==
    /\ Done(1, "Wait")
    /\ local[1].ctx = Canceled
    /\ call[1].requested > 0
    /\ result[1] = Nil
    /\ deducted[1] = Requested(1)
    /\ heap[1].tokens = heap[1].capacity - Requested(1)

\* an r.Wait(ctx, key, 1) with ctx past its deadline before the call has
\* returned nil on the store's word
RemoteAttemptWitness ==
    /\ Done(1, "R.Wait")
    /\ local[1].ctx = DeadlineExceeded
    /\ result[1] = Nil
    /\ obs[1].reply = "allow"

\* ---------------------------------------------------------------- claims on the script
\* C33: the token count that the store holds for a key is at least 0 and at
\* most the capacity, after any runs of the script with requested >= 0 and
\* any readings of the store's clock.
StoredTokensWithinCapacity ==
    \A k \in Keys :
        store.data[k].exists =>
            /\ 0 <= store.data[k].tokens
            /\ store.data[k].tokens <= rl.capacity

\* what holds of the script: the count is at most the capacity, and at
\* least 0 as long as no run has read a clock behind the stored ts
StoredTokensAtMostCapacity ==
    \A k \in Keys :
        store.data[k].exists => store.data[k].tokens <= rl.capacity

\* C32: given the same calls at the same clock readings, the bucket and the
\* script have answered the last call alike, and the store holds for the
\* key the token count and the timestamp that the bucket holds; before the
\* first call the bucket is full, as the script will take the absent key
\* to be.
ScriptMatchesBucket ==
    IF store.data["user-1"].exists
    THEN /\ result[1] = result[2]
         /\ store.data["user-1"].tokens = heap[1].tokens
         /\ store.data["user-1"].ts = heap[1].lastRefill
    ELSE heap[1].tokens = heap[1].capacity

\* after a refill over some time, a call for more than the capacity was
\* denied by both, and both hold the same count, above 0 and below capacity
ScriptMatchesBucketWitness ==
    /\ store.data["user-1"].exists
    /\ now > 0
    /\ heap[1].refillRate > 0
    /\ Done(1, "Allow") /\ result[1] = FALSE /\ result[2] = FALSE
    /\ Requested(1) > heap[1].capacity
    /\ store.data["user-1"].tokens > 0
    /\ store.data["user-1"].tokens < rl.capacity
    /\ store.data["user-1"].ts = now

\* ---- claims on the fallback through outages
\* a step creates the fallback bucket of a key
Created(k) == kl.buckets[k] = NoBucket /\ kl'.buckets[k] # NoBucket

\* A fallback bucket starts with capacity tokens whatever the store holds
\* for its key, and no step writes both the store and a fallback bucket.
FallbackApart ==
    /\ \A k \in Keys :
         Created(k) => heap'[kl'.buckets[k]].tokens = rl.capacity
    /\ heap' # heap => store' = store
    /\ store' # store => heap' = heap /\ kl' = kl

\* the tokens admitted for each key: at most capacity on the store's answer
\* and at most capacity on the fallback's
AdmittedWithinTwice ==
    \A k \in Keys :
        /\ hist.viaStore[k] <= rl.capacity
        /\ hist.viaLocal[k] <= rl.capacity
        /\ hist.viaStore[k] + hist.viaLocal[k] <= 2 * rl.capacity

\* C31: in FailDegrade mode the fallback bucket of a key starts full at its
\* first use, whatever the store has already given out for the key, and is
\* never synchronised with the store; with refillRate 0 a limiter admits at
\* most capacity tokens for a key through the store and at most capacity
\* through the fallback, at most 2*capacity in all, over any sequence of
\* outages and recoveries of the store.
DegradeAdmitsAtMostTwice == []AdmittedWithinTwice /\ [][FallbackApart]_vars

\* a key has had capacity tokens from the store and capacity tokens from the
\* fallback, the fallback's after the store's were gone
DegradeAdmitsAtMostTwiceWitness ==
    \E k \in Keys :
        /\ hist.viaStore[k] = rl.capacity
        /\ hist.viaLocal[k] = rl.capacity
        /\ store.data[k].exists /\ store.data[k].tokens = 0
        /\ kl.buckets[k] # NoBucket /\ heap[kl.buckets[k]].tokens = 0

TypeOK ==
    /\ now \in 0..MaxTime
    /\ \A i \in 1..Len(heap) : heap[i].mu \in Procs \cup {NoProc}
    /\ \A p \in Procs : local[p].bucket \in 0..Len(heap)
====
